---- MODULE Spec2Model ----
(***************************************************************************)
(* Model of the ACS access-control firmware: the node's outbound queue and *)
(* command handler (firmware/esp32/main.py, firmware/rp2040/main.py), the  *)
(* Wiegand decoder (pro_wiegand_lib.py), the binary decoder of the master  *)
(* (firmware/esp32_master/main.py) and the text codec (protocol.py,        *)
(* master.py).  Bytes and characters are integers (a str is the sequence   *)
(* of its code points, a bytes object the sequence of its bytes).          *)
(***************************************************************************)
EXTENDS Integers, Sequences, FiniteSets, TLC

VARIABLES
    \* ---- node (firmware/esp32/main.py) ----
    tx_queue,       \* list of outbound frames
    i2c_address,    \* in-memory bus address
    addr_file,      \* i2c_addr.dat: whether it exists, and its bytes
    reset_pending,  \* a do_reset() task has been created and is sleeping
    fb_tasks,       \* created handle_feedback_command tasks, <<rdr_id, cmd>>
    fb_pc,          \* where each of these tasks is in its coroutine
    feedback_pins,  \* rdr_id -> levels of the gled, rled and buzz outputs
    wire,           \* last value handed to i2c_instance.write()
    accepted,       \* history: frames appended to tx_queue since boot
    sent,           \* history: frames popped from tx_queue and written since boot
    node_op,        \* history: what the last node step did
    dropped,        \* history: the last step called prepare_message, which dropped
    last_cmd,       \* history: data of the last handle_i2c_command call
    last_input_states, \* monitor_inputs: the REX and contact levels seen last, per door
    prep_count,     \* history: prepare_message calls since boot
    cmd_count,      \* history: handle_i2c_command calls since boot
    \* ---- Wiegand decoder (firmware/esp32/pro_wiegand_lib.py) ----
    _readers,       \* WiegandController._readers: reader id -> _WiegandReader
    sched,          \* callbacks queued by micropython.schedule, oldest first
    dec_op,         \* history: what the last decoder step did
    dec_r,          \* history: the reader the last decoder step was about
    dec_bit,        \* history: bit_val of the last edge
    \* ---- codecs (firmware/esp32_master/main.py, firmware/esp32/protocol.py) ----
    bin_payload,    \* input: payload of a binary frame
    bin_alt,        \* input: a byte to put in place of the checksum
    bin_frame,      \* the frame as received by the master
    bin_parsed,     \* result of parse_slave_response
    txt_payload,    \* input: payload object, a sequence of <<key, value>>
    txt_alt,        \* input: a string to put in place of the checksum field
    txt_cks,        \* history: the checksum field create_message wrote
    txt_line,       \* the line as received
    txt_parsed,     \* result of parse_message
    codec_op,       \* history: what the last codec step did
    \* ---- master (firmware/esp32_master/main.py) ----
    other_node,     \* a second node on the bus, with another UID: its i2c_address (0
                    \* while it is off), its address file, its pending do_reset
    config_file,    \* config.json of the master: readable with its SLAVES, missing or corrupt
    CONFIG,         \* SLAVES: sequence of [uid, final_address]; I2C_BUS: the key is there
    known_slaves,   \* final_address -> [status, age]; age is
                    \* ticks_diff(ticks_ms(), last_seen), saturated
    poll_pc,        \* polling_task: "init", "top", "for", "check"
    poll_todo,      \* addresses the running for loop has not visited yet
    poll_yielded,   \* polling_task is suspended in a sleep
    poll_fb,        \* <<addr, rdr_id>> of the feedback command about to be written
    disc_pc,        \* discovery_task: "sleep", "sent" (between writeto and readfrom),
                    \* "set" (about to write SET_ADDRESS)
    disc_final,     \* final_addr of the SET_ADDRESS about to be written
    m_op,           \* history: what the last step did
    m_prev,         \* history: known_slaves before the last step
    m_response,     \* history: the bytes the last readfrom returned
    m_addr,         \* history: the address the last master step was about
    m_parsed,       \* history: the last result of parse_slave_response
    m_sent,         \* history: the i2c.writeto calls of the last step, <<addr, bytes>>
    assigned,       \* history: the address of the last SET_ADDRESS delivered, 0 for none
    passes_since,   \* history: timeout checks since the node restarted at the
                    \* assigned address (counted up to 2)
    poll_failed     \* history: a poll of the assigned address failed or was invalid
                    \* since that restart

node_vars == <<tx_queue, i2c_address, addr_file, reset_pending, fb_tasks, fb_pc,
               feedback_pins, wire,
               accepted, sent, node_op, dropped, last_cmd, prep_count, cmd_count,
               last_input_states>>

dec_vars == <<_readers, sched, dec_op, dec_r, dec_bit>>

codec_vars == <<bin_payload, bin_alt, bin_frame, bin_parsed,
                txt_payload, txt_alt, txt_cks, txt_line, txt_parsed, codec_op>>

master_vars == <<other_node, config_file, CONFIG, known_slaves, poll_pc, poll_todo, poll_yielded, poll_fb,
                 disc_pc, disc_final, m_prev, m_response,
                 m_op, m_addr, m_parsed, m_sent, assigned, passes_since, poll_failed>>

vars == <<node_vars, dec_vars, codec_vars, master_vars>>

(***************************************************************************)
(* Protocol constants                                                      *)
(***************************************************************************)
UNCONFIGURED_I2C_ADDRESS == 8
CMD_IDENTIFY == 1
CMD_SET_ADDRESS == 2
CMD_FEEDBACK_GRANT == 16
CMD_FEEDBACK_DENY == 17
RESP_IDENTIFY == 65
ACK_SET_ADDRESS == 66
EVENT_CARD_READ == 129
EVENT_HEARTBEAT == 130
EVENT_REX == 131
EVENT_DOOR_CONTACT == 132
STATUS_OK == 1
\* the length test of prepare_message
TX_QUEUE_LIMIT == 20
\* _WiegandReader: debounce window, idle timeout, ceiling of _bits
MIN_PULSE_WIDTH_US == 200
TIMEOUT_MS == 50
MAX_BITS == 64
\* the filler written when nothing is queued
FILLER == <<0>>

\* the address file: absent, or present with its bytes
NoFile == [exists |-> FALSE, bytes |-> <<>>]
File(b) == [exists |-> TRUE, bytes |-> b]
\* UNIQUE_ID: hexlify(unique_id()).upper(), here "AABBCCDD"
UNIQUE_ID == <<65, 65, 66, 66, 67, 67, 68, 68>>

(***************************************************************************)
(* Bounds of the model                                                     *)
(***************************************************************************)
\* prepare_message calls per boot in the queue specification (above the limit)
MaxPrepare == 23
\* handle_i2c_command calls per boot
MaxCmds == 1
\* pulses on the D1 line in one train
MaxOnes == 1
\* length of the enumerated binary payloads
MaxBinLen == 3
\* prepare_message and handle_i2c_command calls per boot in the node specification
MaxNodePrepare == 3
MaxNodeCmds == 2

(***************************************************************************)
(* Bytes                                                                   *)
(***************************************************************************)
\* checksum = 0; for byte in data: checksum ^= byte
\* Bit k of the XOR of all the bytes is set when an odd number of them has bit
\* k set; the bytes and characters of the protocol are below 256.
calculate_checksum(data) ==
    LET ChecksumBit(k) ==
            Cardinality({i \in 1..Len(data) : (data[i] \div (2 ^ k)) % 2 = 1}) % 2
    IN ChecksumBit(0) + (2 * ChecksumBit(1)) + (4 * ChecksumBit(2))
       + (8 * ChecksumBit(3)) + (16 * ChecksumBit(4)) + (32 * ChecksumBit(5))
       + (64 * ChecksumBit(6)) + (128 * ChecksumBit(7))

(***************************************************************************)
(* Node: outbound queue                                                    *)
(***************************************************************************)
\* a prepare_message that drops the oldest frame when the queue is over the limit
prepare_message_dropOldest(q, payload) ==
    IF Len(q) > TX_QUEUE_LIMIT
    THEN Append(Tail(q), payload \o <<calculate_checksum(payload)>>)
    ELSE Append(q, payload \o <<calculate_checksum(payload)>>)

\* prepare_message(payload): the queue after the call
prepare_message(q, payload) ==
    IF Len(q) > TX_QUEUE_LIMIT
    THEN q
    ELSE Append(q, payload \o <<calculate_checksum(payload)>>)

\* whether prepare_message(payload) on queue q drops the frame
prepare_drops(q) == Len(q) > TX_QUEUE_LIMIT

\* one prepare_message(payload) call, with the history it leaves
Prepared(payload) ==
    /\ tx_queue' = prepare_message(tx_queue, payload)
    /\ accepted' = IF prepare_drops(tx_queue) THEN accepted
                   ELSE Append(accepted, payload \o <<calculate_checksum(payload)>>)
    /\ dropped' = prepare_drops(tx_queue)
    /\ prep_count' = prep_count + 1

\* a step that does not call prepare_message
NotPrepared ==
    /\ UNCHANGED <<tx_queue, accepted, prep_count>>
    /\ dropped' = FALSE

\* a load_address that ignores the address file
load_address_default(file) == UNCONFIGURED_I2C_ADDRESS

\* load_address(): the bus address read from the address file
load_address(file) ==
    IF file.exists /\ Len(file.bytes) = 1 THEN file.bytes[1] ELSE UNCONFIGURED_I2C_ADDRESS

\* the files save_address(new_addr) can leave: written, or (OSError from open or
\* write) untouched or truncated by open(ADDR_FILE, 'wb')
save_address(file, new_addr) == {File(<<new_addr>>), file, File(<<>>)}

\* a TX-done handler that sends the newest frame instead of the oldest
TxDone_popLast ==
    /\ IF tx_queue # <<>>
       THEN /\ wire' = tx_queue[Len(tx_queue)]
            /\ sent' = Append(sent, tx_queue[Len(tx_queue)])
            /\ tx_queue' = SubSeq(tx_queue, 1, Len(tx_queue) - 1)
            /\ node_op' = "tx_frame"
       ELSE /\ wire' = FILLER
            /\ UNCHANGED <<sent, tx_queue>>
            /\ node_op' = "tx_filler"
    /\ dropped' = FALSE
    /\ UNCHANGED <<i2c_address, addr_file, reset_pending, fb_tasks, fb_pc, feedback_pins, accepted,
                   last_cmd, prep_count, cmd_count, last_input_states>>

\* i2c_irq_handler, IRQ_TX_DONE (rp2040: i2c_polling_task, is_read_pending)
TxDone ==
    /\ IF tx_queue # <<>>
       THEN /\ wire' = Head(tx_queue)
            /\ sent' = Append(sent, Head(tx_queue))
            /\ tx_queue' = Tail(tx_queue)
            /\ node_op' = "tx_frame"
       ELSE /\ wire' = FILLER
            /\ UNCHANGED <<sent, tx_queue>>
            /\ node_op' = "tx_filler"
    /\ dropped' = FALSE
    /\ UNCHANGED <<i2c_address, addr_file, reset_pending, fb_tasks, fb_pc, feedback_pins, accepted,
                   last_cmd, prep_count, cmd_count, last_input_states>>

\* a heartbeat() that does not look at the address
Heartbeat_always ==
    /\ Prepared(<<EVENT_HEARTBEAT, 0>>)
    /\ node_op' = "heartbeat"
    /\ UNCHANGED <<i2c_address, addr_file, reset_pending, fb_tasks, fb_pc, feedback_pins, wire, sent,
                   last_cmd, cmd_count, last_input_states>>

\* heartbeat(): one wake-up after the 30 s sleep
Heartbeat ==
    /\ IF i2c_address # UNCONFIGURED_I2C_ADDRESS
       THEN Prepared(<<EVENT_HEARTBEAT, 0>>)
       ELSE NotPrepared
    /\ node_op' = "heartbeat"
    /\ UNCHANGED <<i2c_address, addr_file, reset_pending, fb_tasks, fb_pc, feedback_pins, wire, sent,
                   last_cmd, cmd_count, last_input_states>>

\* handle_i2c_command(data), as scheduled by i2c_irq_handler on IRQ_RX_DONE
HandleI2CCommand(data) ==
    /\ last_cmd' = data
    /\ cmd_count' = cmd_count + 1
    /\ UNCHANGED <<i2c_address, wire, sent, last_input_states, feedback_pins>>
    /\ IF data = <<>>
       THEN /\ NotPrepared
            /\ node_op' = "nodata"
            /\ UNCHANGED <<addr_file, reset_pending, fb_tasks, fb_pc>>
       ELSE IF data[1] = CMD_IDENTIFY
       THEN /\ Prepared(<<RESP_IDENTIFY, Len(UNIQUE_ID)>> \o UNIQUE_ID)
            /\ node_op' = "identify"
            /\ UNCHANGED <<addr_file, reset_pending, fb_tasks, fb_pc>>
       ELSE IF data[1] = CMD_SET_ADDRESS /\ Len(data) > 1
       THEN /\ addr_file' \in save_address(addr_file, data[2])
            /\ Prepared(<<ACK_SET_ADDRESS, 2, STATUS_OK, data[2]>>)
            /\ reset_pending' = TRUE
            /\ node_op' = "set_address"
            /\ UNCHANGED <<fb_tasks, fb_pc>>
       ELSE IF (data[1] = CMD_FEEDBACK_GRANT \/ data[1] = CMD_FEEDBACK_DENY) /\ Len(data) > 1
       THEN /\ fb_tasks' = Append(fb_tasks, <<data[2], data[1]>>)
            /\ fb_pc' = Append(fb_pc, "start")
            /\ NotPrepared
            /\ node_op' = "feedback"
            /\ UNCHANGED <<addr_file, reset_pending>>
       ELSE /\ NotPrepared
            /\ node_op' = "unknown"
            /\ UNCHANGED <<addr_file, reset_pending, fb_tasks, fb_pc>>

\* the doors of the node's config.json
DOORS == {1}

\* last_input_states = {}: what its get() calls default to for a missing key
NoInputStates == [rdr_id \in DOORS |-> [rex |-> 1, contact |-> 0 - 1]]

\* monitor_inputs(): one pass of the loop, with the REX and contact pins of the
\* door at the levels rex and contact
MonitorInputs(rdr_id, rex, contact) ==
    LET rex_pressed == rex = 0 /\ last_input_states[rdr_id].rex = 1
        contact_changed == contact # last_input_states[rdr_id].contact
        rex_payload == <<EVENT_REX, 1, rdr_id>>
        contact_payload == <<EVENT_DOOR_CONTACT, 2, rdr_id, IF contact = 1 THEN 1 ELSE 0>>
        q1 == IF rex_pressed THEN prepare_message(tx_queue, rex_payload) ELSE tx_queue
        a1 == IF rex_pressed /\ ~prepare_drops(tx_queue)
              THEN Append(accepted, rex_payload \o <<calculate_checksum(rex_payload)>>)
              ELSE accepted
    IN /\ IF i2c_address # UNCONFIGURED_I2C_ADDRESS
          THEN /\ tx_queue' = IF contact_changed THEN prepare_message(q1, contact_payload)
                                                ELSE q1
               /\ accepted' = IF contact_changed /\ ~prepare_drops(q1)
                               THEN Append(a1, contact_payload
                                               \o <<calculate_checksum(contact_payload)>>)
                               ELSE a1
               /\ dropped' = ((rex_pressed /\ prepare_drops(tx_queue))
                               \/ (contact_changed /\ prepare_drops(q1)))
               /\ prep_count' = prep_count + (IF rex_pressed THEN 1 ELSE 0)
                                            + (IF contact_changed THEN 1 ELSE 0)
               /\ last_input_states' =
                     [last_input_states EXCEPT ![rdr_id] = [rex |-> rex, contact |-> contact]]
          ELSE /\ NotPrepared
               /\ UNCHANGED last_input_states
       /\ node_op' = "monitor_inputs"
       /\ UNCHANGED <<i2c_address, addr_file, reset_pending, fb_tasks, fb_pc, feedback_pins, wire, sent,
                      last_cmd, cmd_count>>

\* main(), the loop over CONFIG["DOORS"]: the three outputs of every door are
\* created with value=0
PinsOff == [rdr_id \in DOORS |-> [gled |-> 0, rled |-> 0, buzz |-> 0]]

\* a lookup that falls back on the pins of some door
pins_get_anyDoor(rdr_id) == CHOOSE d \in DOORS : rdr_id \in DOORS => d = rdr_id

\* feedback_pins.get(rdr_id): the door whose pins the task drives, 0 for None
pins_get(rdr_id) == IF rdr_id \in DOORS THEN rdr_id ELSE 0

\* handle_feedback_command(rdr_id, cmd_type) from one await to the next: the
\* levels the pins have after the segment that starts at pc
feedback_segment(cmd_type, pc, pins) ==
    IF cmd_type = CMD_FEEDBACK_GRANT
    THEN IF pc = "start" THEN [gled |-> 1, rled |-> 0, buzz |-> 1]
         ELSE IF pc = "beep" THEN [pins EXCEPT !.buzz = 0]
         ELSE [pins EXCEPT !.gled = 0]
    ELSE IF pc = "start" THEN [gled |-> 0, rled |-> 1, buzz |-> 1]
         ELSE IF pc = "beep" THEN [pins EXCEPT !.buzz = 0]
         ELSE IF pc = "gap" THEN [pins EXCEPT !.buzz = 1]
         ELSE IF pc = "beep2" THEN [pins EXCEPT !.buzz = 0]
         ELSE [pins EXCEPT !.rled = 0]

\* the await the segment that starts at pc ends in, "done" for the return
feedback_next(cmd_type, pc) ==
    IF cmd_type = CMD_FEEDBACK_GRANT
    THEN IF pc = "start" THEN "beep" ELSE IF pc = "beep" THEN "lit" ELSE "done"
    ELSE IF pc = "start" THEN "beep"
         ELSE IF pc = "beep" THEN "gap"
         ELSE IF pc = "gap" THEN "beep2"
         ELSE IF pc = "beep2" THEN "lit"
         ELSE "done"

\* the k-th handle_feedback_command task runs up to its next await, or returns
\* at once when the reader has no pins
HandleFeedbackCommand(k) ==
    /\ k \in 1..Len(fb_tasks)
    /\ fb_pc[k] # "done"
    /\ LET rdr_id == fb_tasks[k][1]
           cmd_type == fb_tasks[k][2]
           door == pins_get(rdr_id)
       IN IF door = 0
          THEN /\ fb_pc' = [fb_pc EXCEPT ![k] = "done"]
               /\ UNCHANGED feedback_pins
          ELSE /\ fb_pc' = [fb_pc EXCEPT ![k] = feedback_next(cmd_type, fb_pc[k])]
               /\ feedback_pins' = [feedback_pins EXCEPT
                                       ![door] = feedback_segment(cmd_type, fb_pc[k], @)]
    /\ node_op' = "feedback_task"
    /\ NotPrepared
    /\ UNCHANGED <<i2c_address, addr_file, reset_pending, fb_tasks, wire, sent,
                   last_cmd, cmd_count, last_input_states>>

\* main() after a start or restart: empty RAM state, address from the file
Booted(file) ==
    /\ addr_file = file
    /\ i2c_address = load_address(file)
    /\ tx_queue = <<>>
    /\ reset_pending = FALSE
    /\ fb_tasks = <<>>
    /\ fb_pc = <<>>
    /\ feedback_pins = PinsOff
    /\ wire = <<>>
    /\ accepted = <<>>
    /\ sent = <<>>
    /\ node_op = "boot"
    /\ dropped = FALSE
    /\ last_cmd = <<>>
    /\ prep_count = 0
    /\ cmd_count = 0
    /\ last_input_states = NoInputStates

\* do_reset(): reset() one second after a SET_ADDRESS, then main() again
DoReset ==
    /\ reset_pending
    /\ addr_file' = addr_file
    /\ i2c_address' = load_address(addr_file)
    /\ tx_queue' = <<>>
    /\ reset_pending' = FALSE
    /\ fb_tasks' = <<>>
    /\ fb_pc' = <<>>
    /\ feedback_pins' = PinsOff
    /\ wire' = <<>>
    /\ accepted' = <<>>
    /\ sent' = <<>>
    /\ node_op' = "boot"
    /\ dropped' = FALSE
    /\ last_cmd' = <<>>
    /\ prep_count' = 0
    /\ cmd_count' = 0
    /\ last_input_states' = NoInputStates

\* address files a node can start with: none, or one written by an earlier SET_ADDRESS
StartFiles == {NoFile, File(<<5>>)}

\* commands the master of this repository sends (no checksum), the same with a
\* checksum byte appended, right or wrong, and malformed ones
IdentifyCmds == {<<CMD_IDENTIFY>>, <<CMD_IDENTIFY, 1>>}
Commands ==
    IdentifyCmds \cup
    { <<>>, <<CMD_SET_ADDRESS>>, <<CMD_SET_ADDRESS, 5>>, <<CMD_SET_ADDRESS, 5, 7>>,
      <<CMD_SET_ADDRESS, 6>>,
      <<CMD_SET_ADDRESS, 5, 0>>, <<CMD_FEEDBACK_GRANT, 1>>, <<CMD_FEEDBACK_GRANT, 1, 17>>,
      <<CMD_FEEDBACK_DENY, 1>>, <<CMD_FEEDBACK_DENY, 9, 0>>, <<127>>, <<127, 127>> }

(***************************************************************************)
(* Wiegand decoder.  _data is kept as the sequence of the bits shifted in, *)
(* most significant first (its length is _bits below the ceiling), so that *)
(* 64-bit codes need no wide integers: bit k of _data, the one of weight   *)
(* 2^k, is BitAt(data, k).  Time is kept relative: pulse_age_us is         *)
(* ticks_diff(ticks_us(), _last_pulse_time_us), saturated at the debounce  *)
(* window, and left_us is the time until the armed one-shot timer fires.   *)
(***************************************************************************)
\* (data >> k) & 1
BitAt(data, k) == IF k < Len(data) THEN data[Len(data) - k] ELSE 0

\* bin((data >> lo) & (2^n - 1)).count('1')
CountOnes(data, lo, n) == Cardinality({k \in lo..(lo + n - 1) : BitAt(data, k) = 1})

\* _WiegandReader.__init__: the fields after construction
NewReader == [data |-> <<>>, bits |-> 0, pulse_age_us |-> MIN_PULSE_WIDTH_US,
              armed |-> FALSE, left_us |-> 0]

\* an _on_data_pulse without the debounce test
on_data_pulse_noDebounce(rd, bit_val) ==
    [ data |-> IF rd.bits < MAX_BITS THEN Append(rd.data, bit_val) ELSE rd.data,
      bits |-> IF rd.bits < MAX_BITS THEN rd.bits + 1 ELSE rd.bits,
      pulse_age_us |-> 0, armed |-> TRUE, left_us |-> TIMEOUT_MS * 1000 ]

\* an _on_data_pulse without the ceiling on _bits
on_data_pulse_noCeiling(rd, bit_val) ==
    IF rd.pulse_age_us < MIN_PULSE_WIDTH_US
    THEN rd
    ELSE [ data |-> Append(rd.data, bit_val), bits |-> rd.bits + 1,
           pulse_age_us |-> 0, armed |-> TRUE, left_us |-> TIMEOUT_MS * 1000 ]

\* an _on_data_pulse that puts the new bit above the bits it has
on_data_pulse_lsbFirst(rd, bit_val) ==
    IF rd.pulse_age_us < MIN_PULSE_WIDTH_US
    THEN rd
    ELSE [ data |-> IF rd.bits < MAX_BITS THEN <<bit_val>> \o rd.data ELSE rd.data,
           bits |-> IF rd.bits < MAX_BITS THEN rd.bits + 1 ELSE rd.bits,
           pulse_age_us |-> 0, armed |-> TRUE, left_us |-> TIMEOUT_MS * 1000 ]

\* _WiegandReader._on_data_pulse(bit_val): the reader after the edge
\* (_data <<= 1; _data |= bit_val appends the bit)
on_data_pulse(rd, bit_val) ==
    IF rd.pulse_age_us < MIN_PULSE_WIDTH_US
    THEN rd
    ELSE [ data |-> IF rd.bits < MAX_BITS THEN Append(rd.data, bit_val) ELSE rd.data,
           bits |-> IF rd.bits < MAX_BITS THEN rd.bits + 1 ELSE rd.bits,
           pulse_age_us |-> 0, armed |-> TRUE, left_us |-> TIMEOUT_MS * 1000 ]

\* a _check_parity that splits the 26 bits one position too low
check_parity_shift12(rd) ==
    IF rd.bits # 26 THEN TRUE
    ELSE /\ CountOnes(rd.data, 12, 13) % 2 = 0
         /\ CountOnes(rd.data, 0, 13) % 2 = 1

\* _WiegandReader._check_parity(): (_data >> 13) & 0x1FFF and _data & 0x1FFF
check_parity(rd) ==
    IF rd.bits # 26 THEN TRUE
    ELSE /\ CountOnes(rd.data, 13, 13) % 2 = 0
         /\ CountOnes(rd.data, 0, 13) % 2 = 1

\* a _finalize_read that resets the reader only after a train it emitted
finalize_reset_onlyOnEmit(rd) ==
    IF rd.bits > 0 /\ check_parity(rd)
    THEN [rd EXCEPT !.data = <<>>, !.bits = 0, !.armed = FALSE, !.left_us = 0]
    ELSE [rd EXCEPT !.armed = FALSE, !.left_us = 0]

\* _WiegandReader._finalize_read(): the reader after the one-shot timer fired
finalize_reset(rd) == [rd EXCEPT !.data = <<>>, !.bits = 0, !.armed = FALSE, !.left_us = 0]

\* the callbacks _finalize_read schedules for reader r
finalize_emits(r, rd) ==
    IF rd.bits > 0 /\ check_parity(rd) THEN << <<r, rd.data, rd.bits>> >> ELSE <<>>

\* the hardware timers the readers are given ids of (rp2040: the counter is
\* taken modulo this)
TIMER_IDS == 4

\* _WiegandReader._timer_id_counter when reader r is constructed, the readers
\* being numbered 1, 2, ... in the order of CONFIG["DOORS"]: the id of the
\* machine.Timer of reader r
timer_id(r) == (r - 1) % TIMER_IDS

\* a reader whose timer was initialised again by another reader: the one-shot
\* now belongs to the other reader's _finalize_read
timer_taken(rd) == [rd EXCEPT !.armed = FALSE, !.left_us = 0]

\* falling edge on D0 (bit_val 0) or D1 (bit_val 1) of reader r; the
\* _timer.init of an accepted edge re-arms the timer with that id, whichever
\* readers hold it
Edge(r, bit_val) ==
    /\ _readers' =
          [q \in DOMAIN _readers |->
              IF q = r THEN on_data_pulse(_readers[r], bit_val)
              ELSE IF _readers[r].pulse_age_us >= MIN_PULSE_WIDTH_US
                      /\ timer_id(q) = timer_id(r)
                THEN timer_taken(_readers[q])
                ELSE _readers[q]]
    /\ dec_op' = IF _readers[r].pulse_age_us < MIN_PULSE_WIDTH_US THEN "bounce"
                 ELSE IF _readers[r].bits < MAX_BITS THEN "accept"
                 ELSE "accept_capped"
    /\ dec_r' = r
    /\ dec_bit' = bit_val
    /\ UNCHANGED <<sched, node_vars>>

\* the one-shot idle timer of reader r fires: _finalize_read
FinalizeRead(r) ==
    /\ _readers[r].armed
    /\ _readers[r].left_us = 0
    /\ sched' = sched \o finalize_emits(r, _readers[r])
    /\ _readers' = [_readers EXCEPT ![r] = finalize_reset(_readers[r])]
    /\ dec_op' = IF _readers[r].bits = 0 THEN "finalize_empty"
                 ELSE IF check_parity(_readers[r]) THEN "finalize_emit"
                 ELSE "finalize_discard"
    /\ dec_r' = r
    /\ UNCHANGED <<dec_bit, node_vars>>

\* d microseconds pass with no edge; an expired timer fires and a scheduled
\* callback runs before more time passes
Tick(d) ==
    /\ sched = <<>>
    /\ \A r \in DOMAIN _readers : ~(_readers[r].armed /\ _readers[r].left_us = 0)
    /\ _readers' = [r \in DOMAIN _readers |->
          [_readers[r] EXCEPT
             !.pulse_age_us = IF @ + d > MIN_PULSE_WIDTH_US THEN MIN_PULSE_WIDTH_US ELSE @ + d,
             !.left_us = IF ~_readers[r].armed THEN 0 ELSE IF @ > d THEN @ - d ELSE 0]]
    /\ dec_op' = "tick"
    /\ UNCHANGED <<sched, dec_r, dec_bit, node_vars>>

\* typecodes of the struct module
StructTypecodes == {98, 66, 104, 72, 105, 73, 108, 76, 113, 81, 102, 100, 120, 115}
\* ">BBBB_I", the format wiegand_callback packs a card read with
CARD_READ_FORMAT == <<62, 66, 66, 66, 66, 95, 73>>
\* struct.pack raises on a format with a character that is no typecode
StructFormatOK(fmt) == \A i \in 2..Len(fmt) : fmt[i] \in StructTypecodes

\* (data >> lo) & 0xFF
ByteAt(data, lo) ==
    BitAt(data, lo) + 2 * BitAt(data, lo + 1) + 4 * BitAt(data, lo + 2)
    + 8 * BitAt(data, lo + 3) + 16 * BitAt(data, lo + 4) + 32 * BitAt(data, lo + 5)
    + 64 * BitAt(data, lo + 6) + 128 * BitAt(data, lo + 7)

\* 'I' under '>': four bytes, most significant first
BigEndian4(data) == <<ByteAt(data, 24), ByteAt(data, 16), ByteAt(data, 8), ByteAt(data, 0)>>

\* the scheduled wiegand_callback(data_tuple) runs
WiegandCallback ==
    /\ sched # <<>>
    /\ sched' = Tail(sched)
    /\ LET t == Head(sched) IN
       IF i2c_address = UNCONFIGURED_I2C_ADDRESS
       THEN NotPrepared /\ node_op' = "card_skip"
       ELSE IF ~StructFormatOK(CARD_READ_FORMAT)
       THEN NotPrepared /\ node_op' = "card_error"
       ELSE /\ Prepared(<<EVENT_CARD_READ, 6, t[1], t[3]>> \o BigEndian4(t[2]))
            /\ node_op' = "card_read"
    /\ dec_op' = "callback"
    /\ UNCHANGED <<i2c_address, addr_file, reset_pending, fb_tasks, fb_pc, feedback_pins, wire, sent,
                   last_cmd, cmd_count, last_input_states, _readers, dec_r, dec_bit>>

\* WiegandController.__init__ over the reader ids of CONFIG["DOORS"]
DecoderInit(ids) ==
    /\ _readers = [r \in ids |-> NewReader]
    /\ sched = <<>>
    /\ dec_op = "init"
    /\ dec_r = 0
    /\ dec_bit = 0

(***************************************************************************)
(* Binary decoder of the master                                            *)
(***************************************************************************)
\* values the decoders return: None, a dict (m: its items), a str or an int
None == [kind |-> "none", i |-> 0, s |-> <<>>, m |-> {}]
Dict(items) == [kind |-> "obj", i |-> 0, s |-> <<>>, m |-> items]
\* dict values
JInt(n) == [t |-> "int", i |-> n, s |-> <<>>]
JStr(x) == [t |-> "str", i |-> 0, s |-> x]
\* dict keys of parse_slave_response
K_type == <<116, 121, 112, 101>>
K_addr == <<97, 100, 100, 114>>
K_uid == <<117, 105, 100>>
K_rdr_id == <<114, 100, 114, 95, 105, 100>>
K_bits == <<98, 105, 116, 115>>
K_card == <<99, 97, 114, 100>>
K_state == <<115, 116, 97, 116, 101>>
\* "empty", "heartbeat", "identity", "event_rex", "event_door_contact", "card_read",
\* "open", "closed"
S_empty == <<101, 109, 112, 116, 121>>
S_heartbeat == <<104, 101, 97, 114, 116, 98, 101, 97, 116>>
S_identity == <<105, 100, 101, 110, 116, 105, 116, 121>>
S_event_rex == <<101, 118, 101, 110, 116, 95, 114, 101, 120>>
S_event_door_contact ==
    <<101, 118, 101, 110, 116, 95, 100, 111, 111, 114, 95, 99, 111, 110, 116, 97, 99, 116>>
S_card_read == <<99, 97, 114, 100, 95, 114, 101, 97, 100>>
S_open == <<111, 112, 101, 110>>
S_closed == <<99, 108, 111, 115, 101, 100>>

\* ">BB_I", the format parse_slave_response unpacks a card read with
CARD_UNPACK_FORMAT == <<62, 66, 66, 95, 73>>

\* bytes.decode('utf-8') succeeds: over the bytes of this model (no lead byte
\* 0xC2..0xF4) exactly when every byte is ASCII
Utf8Decodable(bytes) == \A k \in 1..Len(bytes) : bytes[k] < 128

\* a decoder without the test of the length byte
decode_fields_noLength(payload, slave_address) ==
    LET body == SubSeq(payload, 3, Len(payload))
    IN IF payload[1] = EVENT_CARD_READ
         THEN IF ~StructFormatOK(CARD_UNPACK_FORMAT) \/ Len(body) < 6 THEN None
              ELSE Dict({<<K_type, JStr(S_card_read)>>, <<K_addr, JInt(slave_address)>>,
                         <<K_rdr_id, JInt(body[1])>>, <<K_bits, JInt(body[2])>>,
                         <<K_card, JStr(SubSeq(body, 3, 6))>>})
       ELSE IF payload[1] = EVENT_HEARTBEAT
         THEN Dict({<<K_type, JStr(S_heartbeat)>>, <<K_addr, JInt(slave_address)>>})
       ELSE IF payload[1] = RESP_IDENTIFY
         THEN IF ~Utf8Decodable(body) THEN None
              ELSE Dict({<<K_type, JStr(S_identity)>>, <<K_uid, JStr(body)>>})
       ELSE IF payload[1] = EVENT_REX
         THEN IF Len(payload) < 3 THEN None
              ELSE Dict({<<K_type, JStr(S_event_rex)>>, <<K_addr, JInt(slave_address)>>,
                         <<K_rdr_id, JInt(payload[3])>>})
       ELSE IF payload[1] = EVENT_DOOR_CONTACT
         THEN IF Len(body) < 2 THEN None
              ELSE Dict({<<K_type, JStr(S_event_door_contact)>>,
                         <<K_addr, JInt(slave_address)>>, <<K_rdr_id, JInt(body[1])>>,
                         <<K_state, JStr(IF body[2] = 1 THEN S_open ELSE S_closed)>>})
       ELSE None

\* parse_slave_response from msg_type on: the length test and the fields of
\* each message type.  struct.unpack is MicroPython's: it raises on a bad
\* format and on a buffer that is too small, and the handler's except turns
\* every exception into None.  A card code is kept as its four bytes.
decode_fields(payload, slave_address) ==
    LET body == SubSeq(payload, 3, Len(payload))
    IN IF (Len(payload) - 2) # payload[2] THEN None
       ELSE IF payload[1] = EVENT_CARD_READ
         THEN IF ~StructFormatOK(CARD_UNPACK_FORMAT) \/ Len(body) < 6 THEN None
              ELSE Dict({<<K_type, JStr(S_card_read)>>, <<K_addr, JInt(slave_address)>>,
                         <<K_rdr_id, JInt(body[1])>>, <<K_bits, JInt(body[2])>>,
                         <<K_card, JStr(SubSeq(body, 3, 6))>>})
       ELSE IF payload[1] = EVENT_HEARTBEAT
         THEN Dict({<<K_type, JStr(S_heartbeat)>>, <<K_addr, JInt(slave_address)>>})
       ELSE IF payload[1] = RESP_IDENTIFY
         THEN IF ~Utf8Decodable(body) THEN None
              ELSE Dict({<<K_type, JStr(S_identity)>>, <<K_uid, JStr(body)>>})
       ELSE IF payload[1] = EVENT_REX
         THEN IF Len(payload) < 3 THEN None
              ELSE Dict({<<K_type, JStr(S_event_rex)>>, <<K_addr, JInt(slave_address)>>,
                         <<K_rdr_id, JInt(payload[3])>>})
       ELSE IF payload[1] = EVENT_DOOR_CONTACT
         THEN IF Len(body) < 2 THEN None
              ELSE Dict({<<K_type, JStr(S_event_door_contact)>>,
                         <<K_addr, JInt(slave_address)>>, <<K_rdr_id, JInt(body[1])>>,
                         <<K_state, JStr(IF body[2] = 1 THEN S_open ELSE S_closed)>>})
       ELSE None

\* a parse_slave_response without the checksum comparison
parse_slave_response_noChecksum(data, slave_address) ==
    IF data = <<0>> THEN Dict({<<K_type, JStr(S_empty)>>})
    ELSE IF Len(data) < 3 THEN None
    ELSE decode_fields(SubSeq(data, 1, Len(data) - 1), slave_address)

\* parse_slave_response(data, slave_address)
parse_slave_response(data, slave_address) ==
    IF data = <<0>> THEN Dict({<<K_type, JStr(S_empty)>>})
    ELSE IF Len(data) < 3 THEN None
    ELSE LET payload == SubSeq(data, 1, Len(data) - 1)
             received_checksum == data[Len(data)]
             expected_checksum == calculate_checksum(payload)
         IN IF received_checksum # expected_checksum THEN None
            ELSE decode_fields(payload, slave_address)

(***************************************************************************)
(* Text codec: "<" + json + ">|" + checksum + "\n".  The JSON of the model *)
(* is that of the protocol's payloads: one object whose values are strings *)
(* and integers, written without whitespace.                               *)
(***************************************************************************)
RECURSIVE Digits(_)
\* str(n) for n >= 0
Digits(n) == IF n < 10 THEN <<48 + n>> ELSE Digits(n \div 10) \o <<48 + (n % 10)>>

RECURSIVE EscapeStr(_)
\* the body of a JSON string: '"' and '\' get a backslash
EscapeStr(x) ==
    IF x = <<>> THEN <<>>
    ELSE (IF Head(x) \in {34, 92} THEN <<92, Head(x)>> ELSE <<Head(x)>>) \o EscapeStr(Tail(x))

\* json.dumps of a key or a str value
DumpStr(x) == <<34>> \o EscapeStr(x) \o <<34>>

\* json.dumps of a dict value
DumpValue(v) ==
    IF v.t = "str" THEN DumpStr(v.s)
    ELSE IF v.i < 0 THEN <<45>> \o Digits(0 - v.i) ELSE Digits(v.i)

RECURSIVE DumpMembers(_)
\* the items of a dict, in insertion order, with separators (',', ':')
DumpMembers(P) ==
    IF P = <<>> THEN <<>>
    ELSE DumpStr(P[1][1]) \o <<58>> \o DumpValue(P[1][2])
         \o (IF Len(P) > 1 THEN <<44>> ELSE <<>>) \o DumpMembers(Tail(P))

\* ujson.dumps(payload_dict, separators=(',', ':'))
Dumps(P) == <<123>> \o DumpMembers(P) \o <<125>>

\* results of the parsing steps: ok, the value, the index after it
PFail == [ok |-> FALSE, v |-> JInt(0), items |-> {}, next |-> 0]
POk(v, next) == [ok |-> TRUE, v |-> v, items |-> {}, next |-> next]

RECURSIVE ScanStr(_, _, _)
\* the JSON string whose opening quote is before index k
ScanStr(x, k, acc) ==
    IF k > Len(x) THEN PFail
    ELSE IF x[k] = 34 THEN POk(JStr(acc), k + 1)
    ELSE IF x[k] = 92
      THEN IF k + 1 <= Len(x) /\ x[k + 1] \in {34, 92, 47}
           THEN ScanStr(x, k + 2, Append(acc, x[k + 1]))
           ELSE PFail
    ELSE IF x[k] < 32 THEN PFail
    ELSE ScanStr(x, k + 1, Append(acc, x[k]))

RECURSIVE ScanDigits(_, _, _)
\* the digits from index k on: value and index after them
ScanDigits(x, k, acc) ==
    IF k <= Len(x) /\ x[k] \in 48..57
    THEN ScanDigits(x, k + 1, (10 * acc) + (x[k] - 48))
    ELSE POk(JInt(acc), k)

\* a JSON integer at index k: optional '-', then digits with no leading zero
ScanInt(x, k) ==
    LET neg == k <= Len(x) /\ x[k] = 45
        d == IF neg THEN k + 1 ELSE k
        r == ScanDigits(x, d, 0)
    IN IF r.next = d THEN PFail
       ELSE IF x[d] = 48 /\ r.next > d + 1 THEN PFail
       ELSE IF neg THEN POk(JInt(0 - r.v.i), r.next) ELSE r

\* a str or int value at index k
ScanValue(x, k) ==
    IF k > Len(x) THEN PFail
    ELSE IF x[k] = 34 THEN ScanStr(x, k + 1, <<>>)
    ELSE IF x[k] = 45 \/ x[k] \in 48..57 THEN ScanInt(x, k)
    ELSE PFail

\* the items without the key: a later item replaces an earlier one of the same key
Without(items, key) == {it \in items : it[1] # key}

RECURSIVE ScanMembers(_, _, _)
\* the members of an object from index k on, up to the closing brace
ScanMembers(x, k, items) ==
    IF k > Len(x) \/ x[k] # 34 THEN PFail
    ELSE LET key == ScanStr(x, k + 1, <<>>)
         IN IF ~key.ok \/ key.next > Len(x) \/ x[key.next] # 58 THEN PFail
            ELSE LET val == ScanValue(x, key.next + 1)
                     now == Without(items, key.v.s) \cup {<<key.v.s, val.v>>}
                 IN IF ~val.ok \/ val.next > Len(x) THEN PFail
                    ELSE IF x[val.next] = 125
                      THEN [ok |-> TRUE, v |-> JInt(0), items |-> now, next |-> val.next + 1]
                    ELSE IF x[val.next] = 44 THEN ScanMembers(x, val.next + 1, now)
                    ELSE PFail

\* ujson.loads(payload_str): the value, or None for the ValueError that
\* parse_message catches
Loads(x) ==
    IF x = <<>> THEN None
    ELSE IF x[1] = 123
      THEN IF Len(x) >= 2 /\ x[2] = 125
           THEN (IF Len(x) = 2 THEN Dict({}) ELSE None)
           ELSE LET r == ScanMembers(x, 2, {})
                IN IF r.ok /\ r.next = Len(x) + 1 THEN Dict(r.items) ELSE None
    ELSE LET r == ScanValue(x, 1)
         IN IF r.ok /\ r.next = Len(x) + 1
            THEN [kind |-> r.v.t, i |-> r.v.i, s |-> r.v.s, m |-> {}]
            ELSE None

\* "{:02X}".format(n) and its digits
HexDigit(d) == IF d < 10 THEN 48 + d ELSE 55 + d
Hex2(n) == IF n < 16 THEN <<48, HexDigit(n)>>
           ELSE IF n < 256 THEN <<HexDigit(n \div 16), HexDigit(n % 16)>>
           ELSE <<HexDigit(n \div 256), HexDigit((n \div 16) % 16), HexDigit(n % 16)>>

\* protocol.calculate_checksum(payload_str): XOR of ord(char), as two hex digits
calculate_checksum_text(payload_str) == Hex2(calculate_checksum(payload_str))

\* create_message(payload_dict)
create_message(P) ==
    <<60>> \o Dumps(P) \o <<62, 124>> \o calculate_checksum_text(Dumps(P)) \o <<10>>

\* str.lower() on ASCII
Lower(x) == [k \in 1..Len(x) |-> IF x[k] \in 65..90 THEN x[k] + 32 ELSE x[k]]

\* the characters str.strip() removes
Whitespace == {9, 10, 11, 12, 13, 32}

RECURSIVE LStrip(_)
LStrip(x) == IF x # <<>> /\ Head(x) \in Whitespace THEN LStrip(Tail(x)) ELSE x

RECURSIVE RStrip(_)
RStrip(x) ==
    IF x # <<>> /\ x[Len(x)] \in Whitespace THEN RStrip(SubSeq(x, 1, Len(x) - 1)) ELSE x

\* str.strip()
Strip(x) == RStrip(LStrip(x))

\* index of the last '|' of x, 0 when there is none
LastBar(x) ==
    IF \E k \in 1..Len(x) : x[k] = 124
    THEN CHOOSE k \in 1..Len(x) : x[k] = 124 /\ \A j \in (k + 1)..Len(x) : x[j] # 124
    ELSE 0

\* a parse_message that computes the checksum and never compares it
parse_message_noChecksum(raw_line_str) ==
    LET clean_line == Strip(raw_line_str)
        bar == LastBar(clean_line)
        payload_part == SubSeq(clean_line, 1, bar - 1)
    IN IF clean_line = <<>> \/ clean_line[1] # 60 \/ bar = 0 THEN None
       ELSE IF payload_part[Len(payload_part)] # 62 THEN None
       ELSE Loads(SubSeq(payload_part, 2, Len(payload_part) - 1))

\* a parse_message that cuts "<" off the payload part and leaves ">" on it
parse_message_keepBracket(raw_line_str) ==
    LET clean_line == Strip(raw_line_str)
        bar == LastBar(clean_line)
        payload_part == SubSeq(clean_line, 1, bar - 1)
        received_checksum == SubSeq(clean_line, bar + 1, Len(clean_line))
        payload_str == SubSeq(payload_part, 2, Len(payload_part))
    IN IF clean_line = <<>> \/ clean_line[1] # 60 \/ bar = 0 THEN None
       ELSE IF payload_part[Len(payload_part)] # 62 THEN None
       ELSE IF Lower(calculate_checksum_text(SubSeq(payload_part, 2, Len(payload_part) - 1)))
                 # Lower(received_checksum) THEN None
       ELSE Loads(payload_str)

\* parse_message(raw_line_str)
parse_message(raw_line_str) ==
    LET clean_line == Strip(raw_line_str)
        bar == LastBar(clean_line)
        payload_part == SubSeq(clean_line, 1, bar - 1)
        received_checksum == SubSeq(clean_line, bar + 1, Len(clean_line))
        payload_str == SubSeq(payload_part, 2, Len(payload_part) - 1)
        expected_checksum == calculate_checksum_text(payload_str)
    IN IF clean_line = <<>> \/ clean_line[1] # 60 \/ bar = 0 THEN None
       ELSE IF payload_part[Len(payload_part)] # 62 THEN None
       ELSE IF Lower(expected_checksum) # Lower(received_checksum) THEN None
       ELSE Loads(payload_str)

(***************************************************************************)
(* Codec steps: a frame is built, possibly corrupted on the way, decoded   *)
(***************************************************************************)
\* the addresses the master reads a frame from: the unaddressed one during
\* discovery, a configured one during polling
SlaveAddrs == {UNCONFIGURED_I2C_ADDRESS, 5}

\* no codec input
CodecIdle ==
    /\ bin_payload = <<>> /\ bin_alt = 0 /\ bin_frame = <<>> /\ bin_parsed = None
    /\ txt_payload = <<>> /\ txt_alt = <<>> /\ txt_line = <<>> /\ txt_parsed = None
    /\ txt_cks = <<>>
    /\ codec_op = "idle"

\* the node frames a payload: message = payload + bytes([checksum])
BuildFrame ==
    /\ codec_op = "bin_input"
    /\ bin_frame' = prepare_message(<<>>, bin_payload)[1]
    /\ codec_op' = "bin_framed"
    /\ UNCHANGED <<bin_payload, bin_alt, bin_parsed, txt_payload, txt_alt, txt_cks, txt_line, txt_parsed>>

\* the bus replaces the checksum byte of the frame by another value
AlterChecksumByte ==
    /\ codec_op = "bin_framed"
    /\ bin_alt # bin_frame[Len(bin_frame)]
    /\ bin_frame' = [bin_frame EXCEPT ![Len(bin_frame)] = bin_alt]
    /\ codec_op' = "bin_altered"
    /\ UNCHANGED <<bin_payload, bin_alt, bin_parsed, txt_payload, txt_alt, txt_cks, txt_line, txt_parsed>>

\* the master decodes what it read: parsed = parse_slave_response(response_data, addr)
ParseSlaveResponse ==
    /\ codec_op \in {"bin_framed", "bin_altered"}
    /\ \E addr \in SlaveAddrs : bin_parsed' = parse_slave_response(bin_frame, addr)
    /\ codec_op' = IF codec_op = "bin_altered" THEN "bin_parsed_altered" ELSE "bin_parsed"
    /\ UNCHANGED <<bin_payload, bin_alt, bin_frame, txt_payload, txt_alt, txt_cks, txt_line, txt_parsed>>

\* the sender encodes the payload object
CreateMessage ==
    /\ codec_op = "txt_input"
    /\ txt_line' = create_message(txt_payload)
    /\ txt_cks' = calculate_checksum_text(Dumps(txt_payload))
    /\ codec_op' = "txt_created"
    /\ UNCHANGED <<bin_payload, bin_alt, bin_frame, bin_parsed, txt_payload, txt_alt, txt_parsed>>

\* the line replaces the checksum field (between the last '|' and the newline)
AlterChecksumField ==
    /\ codec_op = "txt_created"
    /\ LET bar == LastBar(txt_line)
       IN /\ txt_alt # SubSeq(txt_line, bar + 1, Len(txt_line) - 1)
          /\ txt_line' = SubSeq(txt_line, 1, bar) \o txt_alt \o <<10>>
    /\ codec_op' = "txt_altered"
    /\ UNCHANGED <<bin_payload, bin_alt, bin_frame, bin_parsed, txt_payload, txt_alt, txt_cks, txt_parsed>>

\* x without its k-th character
DropAt(x, k) == SubSeq(x, 1, k - 1) \o SubSeq(x, k + 1, Len(x))

\* the line loses one of its envelope markers: the leading '<' ("no_lt"), the
\* '>' that closes the payload ("no_gt") or the '|' separator ("no_bar")
DamageEnvelope(marker) ==
    /\ codec_op = "txt_created"
    /\ txt_line' = IF marker = "no_lt" THEN DropAt(txt_line, 1)
                   ELSE IF marker = "no_gt" THEN DropAt(txt_line, LastBar(txt_line) - 1)
                   ELSE DropAt(txt_line, LastBar(txt_line))
    /\ codec_op' = "txt_" \o marker
    /\ UNCHANGED <<bin_payload, bin_alt, bin_frame, bin_parsed, txt_payload, txt_alt, txt_cks, txt_parsed>>

\* the receiver decodes the line: data = parse_message(line_str)
ParseMessage ==
    /\ codec_op \in {"txt_created", "txt_altered", "txt_no_lt", "txt_no_gt", "txt_no_bar"}
    /\ txt_parsed' = parse_message(txt_line)
    /\ codec_op' = IF codec_op = "txt_altered" THEN "txt_parsed_altered"
                   ELSE IF codec_op = "txt_created" THEN "txt_parsed"
                   ELSE "txt_parsed_damaged"
    /\ UNCHANGED <<bin_payload, bin_alt, bin_frame, bin_parsed, txt_payload, txt_alt, txt_cks, txt_line>>

\* bytes of the enumerated frames: 0, command and message tags, small values
BinBytes == {0, 1, 2, RESP_IDENTIFY, EVENT_CARD_READ, EVENT_HEARTBEAT, EVENT_REX,
             EVENT_DOOR_CONTACT}

\* bytes put in place of a checksum
BinAlts == {0, 1, EVENT_HEARTBEAT, 255}

\* all byte strings over BinBytes of length at most n
BinSeqs(n) == UNION {[1..k -> BinBytes] : k \in 0..n}

\* payloads the node builds: identify response, address ack, card read (as the
\* format of wiegand_callback lays it out), heartbeat, REX, door contact
NodePayloads ==
    { <<RESP_IDENTIFY, Len(UNIQUE_ID)>> \o UNIQUE_ID,
      <<EVENT_HEARTBEAT, 0>>,
      <<EVENT_REX, 1, 1>>,
      <<ACK_SET_ADDRESS, 2, STATUS_OK, 5>>,
      <<EVENT_CARD_READ, 6, 2, 26, 0, 0, 3, 232>>,
      <<EVENT_DOOR_CONTACT, 2, 1, 1>>,
      <<EVENT_DOOR_CONTACT, 2, 1, 0>> }

\* {"type":"heartbeat","hub_addr":1}
TextPayload1 ==
    << <<K_type, JStr(S_heartbeat)>>,
       <<<<104, 117, 98, 95, 97, 100, 100, 114>>, JInt(1)>> >>
\* {"type":"card_read","hub_addr":1,"rdr_id":2,"card":1000,"bits":26}
TextPayload2 ==
    << <<K_type, JStr(S_card_read)>>,
       <<<<104, 117, 98, 95, 97, 100, 100, 114>>, JInt(1)>>,
       <<K_rdr_id, JInt(2)>>, <<K_card, JInt(1000)>>, <<K_bits, JInt(26)>> >>
\* {"type":"event_door_contact","hub_addr":0,"rdr_id":1,"state":"open"}
TextPayload3 ==
    << <<K_type, JStr(S_event_door_contact)>>,
       <<<<104, 117, 98, 95, 97, 100, 100, 114>>, JInt(0)>>,
       <<K_rdr_id, JInt(1)>>, <<K_state, JStr(S_open)>> >>
\* {"type":"command","cmd":"set_address","target_uid":"A|B>","new_addr":5}
TextPayload4 ==
    << <<K_type, JStr(<<99, 111, 109, 109, 97, 110, 100>>)>>,
       <<<<99, 109, 100>>, JStr(<<115, 101, 116, 95, 97, 100, 100, 114, 101, 115, 115>>)>>,
       <<<<116, 97, 114, 103, 101, 116, 95, 117, 105, 100>>, JStr(<<65, 124, 66, 62>>)>>,
       <<<<110, 101, 119, 95, 97, 100, 100, 114>>, JInt(5)>> >>
\* {"type":"identity","uid":"a\"b\\","readers":2}
TextPayload5 ==
    << <<K_type, JStr(S_identity)>>,
       <<K_uid, JStr(<<97, 34, 98, 92>>)>>,
       <<<<114, 101, 97, 100, 101, 114, 115>>, JInt(2)>> >>
\* {"note":"<q>|7F","v":-7}
TextPayload6 ==
    << <<<<110, 111, 116, 101>>, JStr(<<60, 113, 62, 124, 55, 70>>)>>,
       <<<<118>>, JInt(0 - 7)>> >>
\* {}
TextPayload7 == <<>>

TextPayloads == {TextPayload1, TextPayload2, TextPayload3, TextPayload4, TextPayload5,
                 TextPayload6, TextPayload7}

\* hex digits in both cases, and the two-character checksum fields over them
HexChars == (48..57) \cup (65..70) \cup (97..102)
ChecksumFields == {<<a, b>> : a \in HexChars, b \in HexChars}

\* a Python dict given as the sequence of its items
AsDict(P) == {P[k] : k \in 1..Len(P)}

\* the number a two-digit hex field stands for
HexDigitValue(c) == IF c \in 48..57 THEN c - 48 ELSE IF c \in 65..70 THEN c - 55 ELSE c - 87
HexValue(field) == (16 * HexDigitValue(field[1])) + HexDigitValue(field[2])

(***************************************************************************)
(* Master: discovery_task and polling_task over known_slaves.  The two     *)
(* tasks are coroutines of one scheduler: a task runs from one await to    *)
(* the next without the other running.  A write to the node's address is   *)
(* handled by the node's handle_i2c_command, a read takes the frame the    *)
(* node's TX handler hands out.                                            *)
(***************************************************************************)
\* the timeout of the check that ends a polling pass, in ms
POLL_TIMEOUT_MS == 45000

\* ages are kept up to just above the timeout
AgeCap == POLL_TIMEOUT_MS + 1

\* a UID no node of the model has: "EEFF0011"
OTHER_UID == <<69, 69, 70, 70, 48, 48, 49, 49>>

\* CONFIG["SLAVES"] with and without an entry for the node's UID, and empty
ConfigWithNode == << [uid |-> UNIQUE_ID, final_address |-> 5],
                     [uid |-> OTHER_UID, final_address |-> 6] >>
ConfigWithoutNode == << [uid |-> OTHER_UID, final_address |-> 6] >>
MasterConfigs == {ConfigWithNode, ConfigWithoutNode, <<>>}

\* how long a sleep of the polling task can take, in ms: a sleep lasts at least
\* its period and as long as the other tasks keep the scheduler
MasterNaps == {POLL_TIMEOUT_MS \div 3, POLL_TIMEOUT_MS}

\* the table after d ms
Advance(ks, d) ==
    [a \in DOMAIN ks |->
        [ks[a] EXCEPT !.age = IF @ + d > AgeCap THEN AgeCap ELSE @ + d]]

\* i2c.readfrom(addr, 32) returns what the node handed out, as it is or filled
\* up to the 32 bytes asked for
Pad32(frame) == frame \o [k \in 1..(32 - Len(frame)) |-> 0]
Delivered(frame) == {frame, Pad32(frame)}

\* a lookup that takes the first entry of the table whatever its uid
slave_config_first(uid) == IF Len(CONFIG.SLAVES) > 0 THEN 1 ELSE 0

\* next((s for s in CONFIG["SLAVES"] if s["uid"] == uid), None): the index of
\* the first entry with that uid, 0 for None
slave_config(uid) ==
    IF \E i \in 1..Len(CONFIG.SLAVES) : CONFIG.SLAVES[i].uid = uid
    THEN CHOOSE i \in 1..Len(CONFIG.SLAVES) :
            CONFIG.SLAVES[i].uid = uid /\ \A j \in 1..(i - 1) : CONFIG.SLAVES[j].uid # uid
    ELSE 0

\* parsed["type"] of a decoded message
TypeOf(parsed) == (CHOOSE it \in parsed.m : it[1] = K_type)[2].s

\* parsed["rdr_id"]
RdrIdOf(parsed) == (CHOOSE it \in parsed.m : it[1] = K_rdr_id)[2].i

\* known_slaves.pop(final_addr, None)
pop(ks, final_addr) == [a \in DOMAIN ks \ {final_addr} |-> ks[a]]

\* config.json as main() can find it
MasterConfigFiles ==
    {[state |-> "ok", SLAVES |-> c] : c \in MasterConfigs}
        \cup {[state |-> "missing", SLAVES |-> <<>>], [state |-> "corrupt", SLAVES |-> <<>>]}

\* CONFIG = {}
EmptyConfig == [SLAVES |-> <<>>, I2C_BUS |-> FALSE]

\* load_config(): CONFIG after the call; OSError (no file) and ValueError (no
\* JSON) give {"SLAVES": []}
load_config(file) ==
    IF file.state = "ok" THEN [SLAVES |-> file.SLAVES, I2C_BUS |-> TRUE]
    ELSE EmptyConfig

\* the master process before main() runs, with config.json as it is
MasterStart(file) ==
    /\ config_file = file
    /\ other_node = [i2c_address |-> 0, addr_file |-> NoFile, reset_pending |-> FALSE]
    /\ CONFIG = EmptyConfig /\ known_slaves = <<>>
    /\ poll_pc = "main" /\ poll_todo = {} /\ poll_yielded = FALSE /\ poll_fb = <<>>
    /\ disc_pc = "sleep" /\ disc_final = 0
    /\ m_prev = <<>> /\ m_response = <<>>
    /\ m_op = "idle" /\ m_addr = 0 /\ m_parsed = None /\ m_sent = <<>>
    /\ assigned = 0 /\ passes_since = 0 /\ poll_failed = FALSE

\* a master that is not started
MasterIdle == MasterStart([state |-> "missing", SLAVES |-> <<>>])

\* main(): load_config(), then CONFIG["I2C_BUS"], which raises KeyError when the
\* key is missing; the exception leaves main() and uasyncio.run(), the except
\* at the end of the file prints it and the process ends.  Otherwise the two
\* tasks are created.
MasterMain ==
    /\ poll_pc = "main"
    /\ CONFIG' = load_config(config_file)
    /\ IF load_config(config_file).I2C_BUS
       THEN poll_pc' = "init" /\ m_op' = "boot"
       ELSE poll_pc' = "halted" /\ m_op' = "fatal"
    /\ m_prev' = known_slaves
    /\ UNCHANGED <<other_node, config_file, known_slaves, poll_todo, poll_yielded, poll_fb, disc_pc,
                   disc_final, m_response, m_addr, m_parsed, m_sent, assigned,
                   passes_since, poll_failed>>
    /\ UNCHANGED node_vars

\* a handler that lets the OSError out of the loop
except_oserror_raise(pc) == "halted"

\* "except OSError": the error is handled inside the loop body, the task stays
\* where it is in its loop
except_oserror(pc) == pc

\* polling_task, before its loop: one record per configured slave
PollingInit ==
    /\ m_prev' = known_slaves /\ UNCHANGED m_response
    /\ poll_pc = "init"
    /\ known_slaves' = [a \in {CONFIG.SLAVES[i].final_address : i \in 1..Len(CONFIG.SLAVES)} |->
                           [status |-> "unknown", age |-> 0]]
    /\ poll_pc' = "top"
    /\ poll_yielded' = FALSE
    /\ m_op' = "poll_init" /\ m_addr' = 0 /\ m_sent' = <<>>
    /\ UNCHANGED <<other_node, config_file, CONFIG, poll_todo, poll_fb, disc_pc, disc_final, m_parsed,
                   assigned, passes_since, poll_failed>>
    /\ UNCHANGED node_vars

\* polling_task, head of the while loop: sleep when the table is empty,
\* otherwise start the for loop over known_slaves.items()
PollingTop(d) ==
    /\ m_prev' = known_slaves /\ UNCHANGED m_response
    /\ poll_pc = "top" /\ disc_pc # "set"
    /\ IF DOMAIN known_slaves = {}
       THEN /\ poll_yielded' = TRUE
            /\ known_slaves' = Advance(known_slaves, d)
            /\ UNCHANGED <<poll_pc, poll_todo>>
            /\ m_op' = "poll_idle"
       ELSE /\ poll_todo' = DOMAIN known_slaves
            /\ poll_pc' = "for"
            /\ poll_yielded' = FALSE
            /\ UNCHANGED known_slaves
            /\ m_op' = "poll_pass"
    /\ m_addr' = 0 /\ m_sent' = <<>>
    /\ UNCHANGED <<other_node, config_file, CONFIG, poll_fb, disc_pc, disc_final, m_parsed,
                   assigned, passes_since, poll_failed>>
    /\ UNCHANGED node_vars

\* a polling step that handles a valid response as any response: only last_seen
polling_valid_onlySeen(state, parsed) == [state EXCEPT !.age = 0]

\* polling_task, a valid response: the record after lines 177-180
polling_valid(state, parsed) == [status |-> "online", age |-> 0]

\* a polling step that marks the node online on an invalid response too
polling_invalid_online(state) == [status |-> "online", age |-> 0]

\* a polling step that leaves last_seen alone on an invalid response
polling_invalid_keepSeen(state) == state

\* polling_task, "if not parsed": the record after line 173
polling_invalid(state) == [state EXCEPT !.age = 0]

\* polling_task, "except OSError": the record after lines 195-196
polling_oserror(state) ==
    IF state.status # "offline" THEN [state EXCEPT !.status = "offline"] ELSE state

\* polling_task, one iteration of the for loop whose readfrom raises OSError
PollingError(addr, d) ==
    /\ m_prev' = known_slaves /\ UNCHANGED m_response
    /\ poll_pc = "for" /\ poll_fb = <<>> /\ disc_pc # "set"
    /\ addr \in poll_todo \cap DOMAIN known_slaves
    /\ known_slaves' = Advance([known_slaves EXCEPT ![addr] = polling_oserror(@)], d)
    /\ poll_todo' = poll_todo \ {addr}
    /\ poll_yielded' = TRUE
    /\ m_op' = "poll_oserror" /\ m_addr' = addr /\ m_sent' = <<>>
    /\ poll_failed' = (poll_failed \/ (addr = assigned /\ i2c_address = assigned))
    /\ poll_pc' = except_oserror(poll_pc)
    /\ UNCHANGED <<other_node, config_file, CONFIG, poll_fb, disc_pc, disc_final, m_parsed,
                   assigned, passes_since>>
    /\ UNCHANGED node_vars

\* polling_task, lines 168-192 of one iteration: response_data is decoded, the
\* record updated and, for a card read or a REX, the feedback command prepared
PollingHandle(addr, response_data, d) ==
    LET parsed == parse_slave_response(response_data, addr)
    IN /\ m_parsed' = parsed
       /\ m_response' = response_data
       /\ IF parsed = None
          THEN /\ known_slaves' = [known_slaves EXCEPT ![addr] = polling_invalid(@)]
               /\ poll_yielded' = FALSE
               /\ poll_fb' = <<>>
               /\ m_op' = "poll_invalid"
          ELSE IF TypeOf(parsed) \in {S_card_read, S_event_rex}
          THEN /\ known_slaves' =
                     [known_slaves EXCEPT ![addr] = polling_valid(@, parsed)]
               /\ poll_yielded' = FALSE
               /\ poll_fb' = <<addr, RdrIdOf(parsed)>>
               /\ m_op' = "poll_event"
          ELSE /\ known_slaves' =
                     Advance([known_slaves EXCEPT ![addr] = polling_valid(@, parsed)], d)
               /\ poll_yielded' = TRUE
               /\ poll_fb' = <<>>
               /\ m_op' = IF TypeOf(parsed) = S_empty THEN "poll_empty" ELSE "poll_valid"
       /\ poll_failed' = (poll_failed \/ (parsed = None /\ addr = assigned))

\* polling_task, one iteration of the for loop whose readfrom returns: the node
\* at addr hands out a frame, the master decodes it and updates the record
PollingRead(addr, d) ==
    /\ m_prev' = known_slaves
    /\ poll_pc = "for" /\ poll_fb = <<>> /\ disc_pc # "set"
    /\ addr \in poll_todo \cap DOMAIN known_slaves
    /\ i2c_address = addr
    /\ TxDone
    /\ \E response_data \in Delivered(wire') : PollingHandle(addr, response_data, d)
    /\ poll_todo' = poll_todo \ {addr}
    /\ m_addr' = addr /\ m_sent' = <<>>
    /\ UNCHANGED <<other_node, config_file, CONFIG, poll_pc, disc_pc, disc_final, assigned, passes_since>>

\* the frame of CardRead{reader 2, 26 bits, code 1000}: 81 06 02 1A 00 00 03 E8
\* and the checksum
CardReadFrame ==
    <<EVENT_CARD_READ, 6, 2, 26, 0, 0, 3, 232,
      calculate_checksum(<<EVENT_CARD_READ, 6, 2, 26, 0, 0, 3, 232>>)>>

\* what readfrom returns from the slave configured at the second address, a
\* device of another build that has a card read to report
OtherResponses == {CardReadFrame}

\* polling_task, one iteration of the for loop whose readfrom is answered by
\* the other slave
PollingReadOther(addr, d) ==
    /\ m_prev' = known_slaves
    /\ poll_pc = "for" /\ poll_fb = <<>> /\ disc_pc # "set"
    /\ addr \in poll_todo \cap DOMAIN known_slaves
    /\ i2c_address # addr /\ addr # 5
    /\ \E response_data \in OtherResponses : PollingHandle(addr, response_data, d)
    /\ poll_todo' = poll_todo \ {addr}
    /\ m_addr' = addr /\ m_sent' = <<>>
    /\ UNCHANGED <<other_node, config_file, CONFIG, poll_pc, disc_pc, disc_final, assigned, passes_since>>
    /\ UNCHANGED node_vars

\* send_feedback_command(addr, rdr_id, CMD_FEEDBACK_GRANT), then the sleep that
\* ends the iteration; an OSError of the write is caught
PollingFeedback(d) ==
    /\ m_prev' = known_slaves /\ UNCHANGED m_response
    /\ poll_pc = "for" /\ poll_fb # <<>>
    /\ \/ /\ i2c_address = poll_fb[1]
          /\ HandleI2CCommand(<<CMD_FEEDBACK_GRANT, poll_fb[2]>>)
          /\ poll_pc' = poll_pc
          /\ m_op' = "poll_feedback"
       \/ /\ UNCHANGED node_vars
          /\ poll_pc' = except_oserror(poll_pc)
          /\ m_op' = "poll_feedback_oserror"
    /\ m_sent' = << <<poll_fb[1], <<CMD_FEEDBACK_GRANT, poll_fb[2]>> >> >>
    /\ m_addr' = poll_fb[1]
    /\ poll_fb' = <<>>
    /\ known_slaves' = Advance(known_slaves, d)
    /\ poll_yielded' = TRUE
    /\ UNCHANGED <<other_node, config_file, CONFIG, poll_todo, disc_pc, disc_final, m_parsed,
                   assigned, passes_since, poll_failed>>

\* a timeout check that never fires
timeout_check_never(state) == state

\* polling_task, "Kontrola timeoutu": one record after lines 203-205
timeout_check(state) ==
    IF state.status = "online" /\ state.age > POLL_TIMEOUT_MS
    THEN [state EXCEPT !.status = "offline"]
    ELSE state

\* polling_task, the end of the for loop and the timeout check after it
PollingTimeoutCheck ==
    /\ m_prev' = known_slaves /\ UNCHANGED m_response
    /\ poll_pc = "for" /\ poll_fb = <<>> /\ disc_pc # "set"
    /\ poll_todo \cap DOMAIN known_slaves = {}
    /\ known_slaves' = [a \in DOMAIN known_slaves |-> timeout_check(known_slaves[a])]
    /\ poll_pc' = "top"
    /\ poll_todo' = {}
    /\ poll_yielded' = FALSE
    /\ m_op' = "timeout_check" /\ m_addr' = 0 /\ m_sent' = <<>>
    /\ passes_since' = IF assigned # 0 /\ i2c_address = assigned /\ passes_since < 2
                       THEN passes_since + 1 ELSE passes_since
    /\ UNCHANGED <<other_node, config_file, CONFIG, poll_fb, disc_pc, disc_final, m_parsed, assigned, poll_failed>>
    /\ UNCHANGED node_vars

\* discovery_task: i2c.writeto(UNCONFIGURED_I2C_ADDRESS, bytes([CMD_IDENTIFY])),
\* handled by the node at that address, or an OSError when none acknowledges
DiscoveryIdentify ==
    /\ m_prev' = known_slaves /\ UNCHANGED m_response
    /\ poll_yielded /\ disc_pc = "sleep"
    /\ \/ /\ i2c_address = UNCONFIGURED_I2C_ADDRESS
          /\ HandleI2CCommand(<<CMD_IDENTIFY>>)
          /\ disc_pc' = "sent"
          /\ m_op' = "disc_identify"
       \/ /\ UNCHANGED node_vars
          /\ disc_pc' = except_oserror("sleep")
          /\ m_op' = "disc_oserror"
    /\ m_sent' = << <<UNCONFIGURED_I2C_ADDRESS, <<CMD_IDENTIFY>> >> >>
    /\ m_addr' = UNCONFIGURED_I2C_ADDRESS
    /\ UNCHANGED <<other_node, config_file, CONFIG, known_slaves, poll_pc, poll_todo, poll_yielded, poll_fb,
                   disc_final, m_parsed, assigned, passes_since, poll_failed>>

\* what discovery_task decides from the parsed response: "no_identity",
\* "no_config", "already_online" or "set"
discovery_decision(ks, parsed) ==
    IF parsed = None \/ TypeOf(parsed) # S_identity THEN "no_identity"
    ELSE LET c == slave_config((CHOOSE it \in parsed.m : it[1] = K_uid)[2].s)
         IN IF c = 0 THEN "no_config"
            ELSE IF CONFIG.SLAVES[c].final_address \in DOMAIN ks
                    /\ ks[CONFIG.SLAVES[c].final_address].status = "online"
              THEN "already_online"
              ELSE "set"

\* the final_addr discovery_task has after the lookup, 0 when it has none
discovery_final(parsed) ==
    IF parsed = None \/ TypeOf(parsed) # S_identity THEN 0
    ELSE LET c == slave_config((CHOOSE it \in parsed.m : it[1] = K_uid)[2].s)
         IN IF c = 0 THEN 0 ELSE CONFIG.SLAVES[c].final_address

\* a discovery step that goes on to SET_ADDRESS whatever it decided
discovery_next_always(decision) == "set"

\* discovery_task: only the branch of line 133 goes on to write SET_ADDRESS
discovery_next(decision) == IF decision = "set" THEN "set" ELSE "sleep"

\* discovery_task: readfrom raises OSError (no device, or a bus error)
DiscoveryReadError ==
    /\ m_prev' = known_slaves /\ UNCHANGED m_response
    /\ poll_yielded /\ disc_pc = "sent"
    /\ disc_pc' = except_oserror("sleep")
    /\ m_op' = "disc_oserror" /\ m_addr' = UNCONFIGURED_I2C_ADDRESS /\ m_sent' = <<>>
    /\ UNCHANGED <<other_node, config_file, CONFIG, known_slaves, poll_pc, poll_todo, poll_yielded, poll_fb,
                   disc_final, m_parsed, assigned, passes_since, poll_failed>>
    /\ UNCHANGED node_vars

\* discovery_task: the response is read and parsed, the UID looked up
DiscoveryRead ==
    /\ m_prev' = known_slaves
    /\ poll_yielded /\ disc_pc = "sent"
    /\ i2c_address = UNCONFIGURED_I2C_ADDRESS
    /\ TxDone
    /\ \E response \in Delivered(wire') :
         LET parsed == parse_slave_response(response, UNCONFIGURED_I2C_ADDRESS)
             decision == discovery_decision(known_slaves, parsed)
         IN /\ m_parsed' = parsed
            /\ m_response' = response
            /\ m_op' = "disc_" \o decision
            /\ disc_pc' = discovery_next(decision)
            /\ disc_final' = discovery_final(parsed)
    /\ m_addr' = UNCONFIGURED_I2C_ADDRESS /\ m_sent' = <<>>
    /\ UNCHANGED <<other_node, config_file, CONFIG, known_slaves, poll_pc, poll_todo, poll_yielded, poll_fb,
                   assigned, passes_since, poll_failed>>

\* discovery_task, line 138: the table after the SET_ADDRESS was written
discovery_pop(ks, final_addr) == pop(ks, final_addr)

\* discovery_task: i2c.writeto(UNCONFIGURED_I2C_ADDRESS, set_addr_cmd) and the pop
\* after it; an OSError of the write skips the pop.  The two bytes name no
\* node: every node that listens at the reserved address runs
\* handle_i2c_command on them
DiscoverySetAddress ==
    /\ m_prev' = known_slaves /\ UNCHANGED m_response
    /\ disc_pc = "set"
    /\ \/ /\ i2c_address = UNCONFIGURED_I2C_ADDRESS
          /\ HandleI2CCommand(<<CMD_SET_ADDRESS, disc_final>>)
          /\ IF other_node.i2c_address = UNCONFIGURED_I2C_ADDRESS
             THEN \E file \in save_address(other_node.addr_file, disc_final) :
                     other_node' = [other_node EXCEPT !.addr_file = file,
                                                      !.reset_pending = TRUE]
             ELSE UNCHANGED other_node
          /\ known_slaves' = discovery_pop(known_slaves, disc_final)
          /\ assigned' = disc_final
          /\ disc_pc' = "sleep"
          /\ m_op' = "disc_set_address"
       \/ /\ UNCHANGED <<node_vars, known_slaves, assigned, other_node>>
          /\ disc_pc' = except_oserror("sleep")
          /\ m_op' = "disc_set_oserror"
    /\ m_sent' = << <<UNCONFIGURED_I2C_ADDRESS, <<CMD_SET_ADDRESS, disc_final>> >> >>
    /\ m_addr' = disc_final
    /\ disc_final' = 0
    /\ passes_since' = 0
    /\ poll_failed' = FALSE
    /\ UNCHANGED <<config_file, CONFIG, poll_pc, poll_todo, poll_yielded, poll_fb, m_parsed>>

\* a step of the node alone, seen from the master: nothing of the master moves
NodeAlone(op) ==
    /\ m_op' = op /\ m_sent' = <<>>
    /\ m_prev' = known_slaves /\ UNCHANGED m_response
    /\ UNCHANGED <<other_node, config_file, CONFIG, known_slaves, poll_pc, poll_todo, poll_yielded, poll_fb,
                   disc_pc, disc_final, m_addr, m_parsed, assigned>>

\* the second node is switched on, or restarts one second after a SET_ADDRESS:
\* main() with load_address()
OtherBoot ==
    /\ other_node.i2c_address = 0 \/ other_node.reset_pending
    /\ other_node' = [other_node EXCEPT !.i2c_address = load_address(other_node.addr_file),
                                        !.reset_pending = FALSE]
    /\ m_op' = "other_boot" /\ m_sent' = <<>>
    /\ m_prev' = known_slaves
    /\ UNCHANGED <<config_file, CONFIG, known_slaves, poll_pc, poll_todo, poll_yielded, poll_fb,
                   disc_pc, disc_final, m_response, m_addr, m_parsed, assigned,
                   passes_since, poll_failed>>
    /\ UNCHANGED node_vars

(***************************************************************************)
(* Specifications                                                          *)
(***************************************************************************)
\* the outbound queue: producers and the TX-done handler
InitQueue == (\E f \in StartFiles : Booted(f)) /\ DecoderInit({}) /\ CodecIdle /\ MasterIdle

NextQueue ==
    \/ prep_count < MaxPrepare /\ Heartbeat /\ UNCHANGED <<dec_vars, codec_vars, master_vars>>
    \/ \E data \in IdentifyCmds :
          /\ prep_count < MaxPrepare /\ cmd_count < MaxCmds
          /\ HandleI2CCommand(data)
          /\ UNCHANGED <<dec_vars, codec_vars, master_vars>>
    \/ TxDone /\ UNCHANGED <<dec_vars, codec_vars, master_vars>>

SpecQueue == InitQueue /\ [][NextQueue]_vars

\* the node: every command, heartbeats, TX-done, the restart
InitNode == (\E f \in StartFiles : Booted(f)) /\ DecoderInit({}) /\ CodecIdle /\ MasterIdle

NextNode ==
    \/ prep_count < MaxNodePrepare /\ Heartbeat /\ UNCHANGED <<dec_vars, codec_vars, master_vars>>
    \/ \E data \in Commands :
          /\ cmd_count < MaxNodeCmds
          /\ HandleI2CCommand(data)
          /\ UNCHANGED <<dec_vars, codec_vars, master_vars>>
    \/ TxDone /\ UNCHANGED <<dec_vars, codec_vars, master_vars>>
    \/ DoReset /\ UNCHANGED <<dec_vars, codec_vars, master_vars>>

SpecNode == InitNode /\ [][NextNode]_vars

\* the node's commands and the feedback tasks they create
NextFeedback ==
    \/ \E data \in Commands :
          /\ cmd_count < MaxNodeCmds
          /\ HandleI2CCommand(data)
          /\ UNCHANGED <<dec_vars, codec_vars, master_vars>>
    \/ \E k \in 1..Len(fb_tasks) :
          HandleFeedbackCommand(k) /\ UNCHANGED <<dec_vars, codec_vars, master_vars>>
    \/ DoReset /\ UNCHANGED <<dec_vars, codec_vars, master_vars>>

SpecFeedback == InitNode /\ [][NextFeedback]_vars

\* the decoder: one reader, edges, time, idle timeouts
\* the two time steps: half a debounce window, and a whole idle timeout
Gaps == {MIN_PULSE_WIDTH_US \div 2, TIMEOUT_MS * 1000}

InitDecoder == (\E f \in StartFiles : Booted(f)) /\ DecoderInit({1}) /\ CodecIdle /\ MasterIdle

NextDecoder ==
    \/ \E r \in DOMAIN _readers : Edge(r, 0) /\ UNCHANGED <<codec_vars, master_vars>>
    \/ \E r \in DOMAIN _readers :
          /\ _readers[r].bits < 26
          /\ CountOnes(_readers[r].data, 0, MAX_BITS) < MaxOnes
          /\ Edge(r, 1)
          /\ UNCHANGED <<codec_vars, master_vars>>
    \/ \E r \in DOMAIN _readers : FinalizeRead(r) /\ UNCHANGED <<codec_vars, master_vars>>
    \/ \E d \in Gaps :
          /\ d < MIN_PULSE_WIDTH_US =>
                \E r \in DOMAIN _readers : _readers[r].pulse_age_us < MIN_PULSE_WIDTH_US
          /\ Tick(d)
          /\ UNCHANGED <<codec_vars, master_vars>>
    \/ WiegandCallback /\ UNCHANGED <<codec_vars, master_vars>>

SpecDecoder == InitDecoder /\ [][NextDecoder]_vars

\* several readers: one more than there are timer ids, cards shown to the
\* first and the last of them
ReaderIds == 1..(TIMER_IDS + 1)
ActiveReaders == {1, TIMER_IDS + 1}
\* edges accepted per train
MaxReaderBits == 2

InitReaders ==
    (\E f \in StartFiles : Booted(f)) /\ DecoderInit(ReaderIds) /\ CodecIdle /\ MasterIdle

NextReaders ==
    \/ \E r \in ActiveReaders, bit_val \in {0, 1} :
          /\ _readers[r].bits < MaxReaderBits
          /\ Edge(r, bit_val)
          /\ UNCHANGED <<codec_vars, master_vars>>
    \/ \E r \in DOMAIN _readers : FinalizeRead(r) /\ UNCHANGED <<codec_vars, master_vars>>
    \/ \E d \in Gaps :
          /\ d < MIN_PULSE_WIDTH_US =>
                \E r \in DOMAIN _readers : _readers[r].pulse_age_us < MIN_PULSE_WIDTH_US
          /\ Tick(d)
          /\ UNCHANGED <<codec_vars, master_vars>>
    \/ WiegandCallback /\ UNCHANGED <<codec_vars, master_vars>>

SpecReaders == InitReaders /\ [][NextReaders]_vars

\* what happens without an edge: time passes, an expired one-shot timer calls
\* its _finalize_read, a scheduled callback runs
ReadersQuietStep ==
    \/ \E r \in DOMAIN _readers : FinalizeRead(r) /\ UNCHANGED <<codec_vars, master_vars>>
    \/ \E d \in Gaps : Tick(d) /\ UNCHANGED <<codec_vars, master_vars>>
    \/ WiegandCallback /\ UNCHANGED <<codec_vars, master_vars>>

\* the readers with the clock running: the timer hardware and the scheduler
\* of micropython.schedule do not stall
SpecReadersLive == SpecReaders /\ WF_vars(ReadersQuietStep)

\* the codecs: one input, binary or text, framed, possibly altered, decoded
InitCodec ==
    /\ Booted(NoFile) /\ DecoderInit({}) /\ MasterIdle
    /\ \/ /\ bin_payload \in BinSeqs(MaxBinLen) \cup NodePayloads
          /\ bin_alt \in BinAlts
          /\ codec_op = "bin_input"
          /\ txt_payload = <<>> /\ txt_alt = <<>>
       \/ /\ txt_payload \in TextPayloads
          /\ txt_alt \in ChecksumFields
          /\ codec_op = "txt_input"
          /\ bin_payload = <<>> /\ bin_alt = 0
    /\ bin_frame = <<>> /\ bin_parsed = None
    /\ txt_line = <<>> /\ txt_parsed = None /\ txt_cks = <<>>

NextCodec ==
    \/ BuildFrame /\ UNCHANGED <<node_vars, dec_vars, master_vars>>
    \/ AlterChecksumByte /\ UNCHANGED <<node_vars, dec_vars, master_vars>>
    \/ ParseSlaveResponse /\ UNCHANGED <<node_vars, dec_vars, master_vars>>
    \/ CreateMessage /\ UNCHANGED <<node_vars, dec_vars, master_vars>>
    \/ AlterChecksumField /\ UNCHANGED <<node_vars, dec_vars, master_vars>>
    \/ \E marker \in {"no_lt", "no_gt", "no_bar"} :
          DamageEnvelope(marker) /\ UNCHANGED <<node_vars, dec_vars, master_vars>>
    \/ ParseMessage /\ UNCHANGED <<node_vars, dec_vars, master_vars>>

SpecCodec == InitCodec /\ [][NextCodec]_vars

\* master and node on one bus: discovery, polling, the node's own tasks
\* commands per boot of the node and prepare_message calls per boot
MaxMasterCmds == 2
MaxMasterPrepare == 1

InitMaster ==
    /\ \E f \in StartFiles : Booted(f)
    /\ \E file \in MasterConfigFiles : MasterStart(file)
    /\ DecoderInit({}) /\ CodecIdle

NextMaster ==
    \/ MasterMain /\ UNCHANGED <<dec_vars, codec_vars>>
    \/ PollingInit /\ UNCHANGED <<dec_vars, codec_vars>>
    \/ \E d \in MasterNaps : PollingTop(d) /\ UNCHANGED <<dec_vars, codec_vars>>
    \/ \E addr \in DOMAIN known_slaves, d \in MasterNaps :
          PollingError(addr, d) /\ UNCHANGED <<dec_vars, codec_vars>>
    \/ \E addr \in DOMAIN known_slaves, d \in MasterNaps :
          PollingRead(addr, d) /\ UNCHANGED <<dec_vars, codec_vars>>
    \/ \E d \in MasterNaps :
          /\ cmd_count < MaxMasterCmds
          /\ PollingFeedback(d)
          /\ UNCHANGED <<dec_vars, codec_vars>>
    \/ PollingTimeoutCheck /\ UNCHANGED <<dec_vars, codec_vars>>
    \/ cmd_count < MaxMasterCmds /\ DiscoveryIdentify /\ UNCHANGED <<dec_vars, codec_vars>>
    \/ DiscoveryReadError /\ UNCHANGED <<dec_vars, codec_vars>>
    \/ DiscoveryRead /\ UNCHANGED <<dec_vars, codec_vars>>
    \/ DiscoverySetAddress /\ UNCHANGED <<dec_vars, codec_vars>>
    \/ /\ prep_count < MaxMasterPrepare
       /\ Heartbeat
       /\ NodeAlone("node_heartbeat")
       /\ UNCHANGED <<passes_since, poll_failed, dec_vars, codec_vars>>
    \/ \E rdr_id \in DOORS, rex \in {0, 1}, contact \in {0, 1} :
          /\ prep_count < MaxMasterPrepare
          /\ MonitorInputs(rdr_id, rex, contact)
          /\ NodeAlone("node_inputs")
          /\ UNCHANGED <<passes_since, poll_failed, dec_vars, codec_vars>>
    \/ /\ DoReset
       /\ NodeAlone("node_reset")
       /\ passes_since' = 0 /\ poll_failed' = FALSE
       /\ UNCHANGED <<dec_vars, codec_vars>>

SpecMaster == InitMaster /\ [][NextMaster]_vars

\* master, two nodes and a slave of another build on one bus.  The second node
\* can be switched on at any moment; the answers of two nodes to one read at
\* the same address are not followed, so discovery probes while the second
\* node is not at the reserved address
NextBus ==
    \/ MasterMain /\ UNCHANGED <<dec_vars, codec_vars>>
    \/ PollingInit /\ UNCHANGED <<dec_vars, codec_vars>>
    \/ \E d \in MasterNaps : PollingTop(d) /\ UNCHANGED <<dec_vars, codec_vars>>
    \/ \E addr \in DOMAIN known_slaves, d \in MasterNaps :
          PollingError(addr, d) /\ UNCHANGED <<dec_vars, codec_vars>>
    \/ \E addr \in DOMAIN known_slaves, d \in MasterNaps :
          /\ other_node.i2c_address # addr
          /\ PollingRead(addr, d)
          /\ UNCHANGED <<dec_vars, codec_vars>>
    \/ \E addr \in DOMAIN known_slaves, d \in MasterNaps :
          PollingReadOther(addr, d) /\ UNCHANGED <<dec_vars, codec_vars>>
    \/ \E d \in MasterNaps :
          /\ cmd_count < MaxMasterCmds
          /\ PollingFeedback(d)
          /\ UNCHANGED <<dec_vars, codec_vars>>
    \/ PollingTimeoutCheck /\ UNCHANGED <<dec_vars, codec_vars>>
    \/ \E rdr_id \in DOORS, rex \in {0, 1}, contact \in {0, 1} :
          /\ prep_count < MaxMasterPrepare
          /\ MonitorInputs(rdr_id, rex, contact)
          /\ NodeAlone("node_inputs")
          /\ UNCHANGED <<passes_since, poll_failed, dec_vars, codec_vars>>
    \/ /\ cmd_count < MaxMasterCmds
       /\ other_node.i2c_address # UNCONFIGURED_I2C_ADDRESS
       /\ DiscoveryIdentify
       /\ UNCHANGED <<dec_vars, codec_vars>>
    \/ DiscoveryReadError /\ UNCHANGED <<dec_vars, codec_vars>>
    \/ /\ other_node.i2c_address # UNCONFIGURED_I2C_ADDRESS
       /\ DiscoveryRead
       /\ UNCHANGED <<dec_vars, codec_vars>>
    \/ DiscoverySetAddress /\ UNCHANGED <<dec_vars, codec_vars>>
    \/ /\ DoReset
       /\ NodeAlone("node_reset")
       /\ passes_since' = 0 /\ poll_failed' = FALSE
       /\ UNCHANGED <<dec_vars, codec_vars>>
    \/ OtherBoot /\ UNCHANGED <<dec_vars, codec_vars>>

SpecBus == InitMaster /\ [][NextBus]_vars

\* everything on the node that can call prepare_message: the heartbeat, the
\* input monitor, the card callback behind the decoder, and the command
\* handler with the commands the master sends
NextProducers ==
    \/ prep_count < MaxMasterPrepare /\ Heartbeat /\ UNCHANGED <<dec_vars, codec_vars, master_vars>>
    \/ \E rdr_id \in DOORS, rex \in {0, 1}, contact \in {0, 1} :
          /\ prep_count < MaxMasterPrepare
          /\ MonitorInputs(rdr_id, rex, contact)
          /\ UNCHANGED <<dec_vars, codec_vars, master_vars>>
    \/ \E data \in {<<CMD_IDENTIFY>>, <<CMD_SET_ADDRESS, 5>>, <<CMD_FEEDBACK_GRANT, 1>>} :
          /\ cmd_count < MaxCmds
          /\ HandleI2CCommand(data)
          /\ UNCHANGED <<dec_vars, codec_vars, master_vars>>
    \/ DoReset /\ UNCHANGED <<dec_vars, codec_vars, master_vars>>
    \/ \E r \in DOMAIN _readers :
          /\ _readers[r].bits < MaxOnes
          /\ Edge(r, 1)
          /\ UNCHANGED <<codec_vars, master_vars>>
    \/ \E r \in DOMAIN _readers : FinalizeRead(r) /\ UNCHANGED <<codec_vars, master_vars>>
    \/ Tick(TIMEOUT_MS * 1000) /\ UNCHANGED <<codec_vars, master_vars>>
    \/ WiegandCallback /\ UNCHANGED <<codec_vars, master_vars>>

SpecProducers == InitDecoder /\ [][NextProducers]_vars

(***************************************************************************)
(* Properties                                                              *)
(***************************************************************************)
\* C1: after any sequence of prepare_message calls and TX-done dequeues,
\* tx_queue never holds more frames than its capacity of 20.
C1_QueueWithinCapacity == Len(tx_queue) <= TX_QUEUE_LIMIT

\* C2: whenever prepare_message drops a frame because of overflow, the frames
\* already queued stay as they were, in the same order, and nothing is recorded
\* as enqueued: only the newest frame is lost.
C2_OverflowKeepsQueue ==
    [][dropped' => (tx_queue' = tx_queue /\ accepted' = accepted)]_vars

\* C2 witness: a producer has just had its frame dropped by a full queue.
C2_Witness == dropped /\ node_op = "heartbeat" /\ Len(tx_queue) > 1 /\ sent # <<>>

\* C3: frames leave the node in the order they were enqueued: the frames sent so
\* far followed by the frames still queued are exactly the frames enqueued, each
\* TX-done with a non-empty queue writes the frame it removed from the head, and
\* a TX-done with an empty queue writes the filler 0x00 and leaves the queue empty.
C3_FifoOrder ==
    /\ accepted = sent \o tx_queue
    /\ node_op = "tx_frame" => (sent # <<>> /\ wire = sent[Len(sent)])
    /\ node_op = "tx_filler" => (wire = <<0>> /\ tx_queue = <<>>)

\* C3 witness: two different frames have been sent and a third is the last write,
\* with frames still queued behind it.
C3_Witness ==
    /\ node_op = "tx_frame" /\ Len(sent) >= 3 /\ sent[1] # sent[2]
    /\ tx_queue # <<>>

\* C4: in every reachable state of every reader's decoder, bit_count is at
\* most 64.
C4_BitCountCeiling ==
    \A r \in DOMAIN _readers :
        _readers[r].bits <= 64 /\ Len(_readers[r].data) <= 64

\* C4 witness: an accepted edge has arrived at a reader that already held 64 bits.
C4_Witness == dec_op = "accept_capped" /\ _readers[dec_r].bits = 64

\* C5: an edge that arrives less than 200 us after the previous accepted edge on
\* the same reader changes neither the accumulated bits, the bit count nor the
\* time of the last accepted pulse, and does not re-arm the idle timer.
C5_BounceIgnored ==
    [][\A r \in DOMAIN _readers :
          (/\ dec_op' \in {"bounce", "accept", "accept_capped"}
           /\ dec_r' = r
           /\ _readers[r].pulse_age_us < 200)
          => _readers' = _readers]_vars

\* C5 witness: an edge inside the debounce window has arrived in the middle of a
\* train, with the idle timer running.
C5_Witness ==
    /\ dec_op = "bounce" /\ _readers[dec_r].bits >= 2
    /\ _readers[dec_r].pulse_age_us = 100
    /\ _readers[dec_r].armed /\ _readers[dec_r].left_us > 0

\* the 26-bit train has an even number of set bits among its first 13 bits and
\* an odd number among its last 13
Wiegand26ParityOK(data) ==
    /\ Cardinality({k \in 1..13 : data[k] = 1}) % 2 = 0
    /\ Cardinality({k \in 14..26 : data[k] = 1}) % 2 = 1

\* C6: at idle-timer expiry with bit_count > 0 the decoder emits exactly one
\* ReaderEvent (reader id, accumulated code, bit count) if bit_count is not 26,
\* or is 26 with both parity constraints met; a 26-bit train failing either
\* constraint emits nothing.
C6_EmitOnValidTrain ==
    [][\A r \in DOMAIN _readers :
          (/\ dec_op' \in {"finalize_emit", "finalize_discard", "finalize_empty"}
           /\ dec_r' = r
           /\ _readers[r].bits > 0)
          => IF _readers[r].bits # 26 \/ Wiegand26ParityOK(_readers[r].data)
             THEN sched' = Append(sched, <<r, _readers[r].data, _readers[r].bits>>)
             ELSE sched' = sched]_vars

\* C6 witness: a 26-bit train with valid parity has just been emitted.
C6_Witness ==
    /\ dec_op = "finalize_emit" /\ sched # <<>>
    /\ sched[Len(sched)][3] = 26
    /\ Wiegand26ParityOK(sched[Len(sched)][2])

\* C7: after every run of the idle-timeout finalizer, whether the train was
\* emitted, discarded for parity or empty, the reader's accumulated bits and bit
\* count are both 0.
C7_FinalizeResets ==
    dec_op \in {"finalize_emit", "finalize_discard", "finalize_empty"}
        => (_readers[dec_r].data = <<>> /\ _readers[dec_r].bits = 0)

\* C7 witness: the finalizer has just discarded a 26-bit train for parity.
C7_Witness == dec_op = "finalize_discard"

\* the last byte of the frame is the XOR of the bytes before it
ChecksumValid(frame) ==
    /\ Len(frame) >= 2
    /\ frame[Len(frame)] = calculate_checksum(SubSeq(frame, 1, Len(frame) - 1))

\* C8: a received frame reaches command or event dispatch only if its trailing
\* checksum byte equals the XOR of its payload bytes: on the node a command whose
\* checksum is missing or wrong causes no action in handle_i2c_command, and on
\* the master a response with a wrong checksum is never routed as an event.
C8_ChecksumGate ==
    /\ node_op \in {"identify", "set_address", "feedback"} => ChecksumValid(last_cmd)
    /\ (codec_op \in {"bin_parsed", "bin_parsed_altered"}
        /\ bin_parsed \notin {None, Dict({<<K_type, JStr(S_empty)>>})})
           => ChecksumValid(bin_frame)

\* C9: for every frame whose checksum field has been altered to a different
\* value the decoder returns None: parse_slave_response for binary frames,
\* parse_message for text frames.
C9_AlteredChecksumRejected ==
    /\ codec_op = "bin_parsed_altered" => bin_parsed = None
    /\ (codec_op = "txt_parsed_altered"
        /\ HexValue(txt_alt) # HexValue(txt_cks))
           => txt_parsed = None

\* C9 witness: a heartbeat frame whose checksum byte was altered has been decoded.
C9_Witness ==
    /\ codec_op = "bin_parsed_altered"
    /\ bin_payload = <<EVENT_HEARTBEAT, 0>>
    /\ bin_frame = <<EVENT_HEARTBEAT, 0, 255>>

\* C10: text round trip: parse_message(create_message(P)) returns an object
\* equal to P.
C10_TextRoundTrip ==
    codec_op = "txt_parsed" => txt_parsed = Dict(AsDict(txt_payload))

\* C10 witness: a payload whose strings hold '"' and '\' has made the round trip.
C10_Witness == codec_op = "txt_parsed" /\ txt_payload = TextPayload5

\* the value of key in a decoded message
Field(parsed, key) == (CHOOSE it \in parsed.m : it[1] = key)[2]

\* the message tag a decoded message stands for, 0 for no message
VariantTag(parsed) ==
    IF parsed = None \/ ~(\E it \in parsed.m : it[1] = K_type) THEN 0
    ELSE LET t == Field(parsed, K_type).s
         IN IF t = S_identity THEN RESP_IDENTIFY
            ELSE IF t = S_card_read THEN EVENT_CARD_READ
            ELSE IF t = S_heartbeat THEN EVENT_HEARTBEAT
            ELSE IF t = S_event_rex THEN EVENT_REX
            ELSE IF t = S_event_door_contact THEN EVENT_DOOR_CONTACT
            ELSE 0

\* the field bytes a decoded message of a node variant stands for
FieldBytes(parsed) ==
    LET tag == VariantTag(parsed)
    IN IF tag = RESP_IDENTIFY THEN Field(parsed, K_uid).s
       ELSE IF tag = EVENT_CARD_READ
         THEN <<Field(parsed, K_rdr_id).i, Field(parsed, K_bits).i>> \o Field(parsed, K_card).s
       ELSE IF tag = EVENT_REX THEN <<Field(parsed, K_rdr_id).i>>
       ELSE IF tag = EVENT_DOOR_CONTACT
         THEN <<Field(parsed, K_rdr_id).i, IF Field(parsed, K_state).s = S_open THEN 1 ELSE 0>>
       ELSE <<>>

\* C11: binary round trip: for every message variant a node sends
\* (IdentifyResponse, AddressAck, CardRead, Heartbeat, Rex, DoorContact) the
\* frame built from its payload decodes with parse_slave_response to a message
\* of the same variant with the same field values.
C11_BinaryRoundTrip ==
    (codec_op = "bin_parsed" /\ bin_payload \in NodePayloads)
        => /\ VariantTag(bin_parsed) = bin_payload[1]
           /\ FieldBytes(bin_parsed) = SubSeq(bin_payload, 3, Len(bin_payload))

\* C12: the frame [0x81, 0x06, reader_id, bit_length, code as 4 big-endian
\* bytes, checksum] decodes on the master to a CardRead message with exactly
\* that reader_id, bit_length and code.
C12_CardReadDecodes ==
    (/\ codec_op = "bin_parsed"
     /\ Len(bin_payload) = 8
     /\ bin_payload[1] = EVENT_CARD_READ /\ bin_payload[2] = 6)
        => /\ bin_parsed # None
           /\ {it \in bin_parsed.m : it[1] # K_addr}
                = { <<K_type, JStr(S_card_read)>>,
                    <<K_rdr_id, JInt(bin_payload[3])>>,
                    <<K_bits, JInt(bin_payload[4])>>,
                    <<K_card, JStr(SubSeq(bin_payload, 5, 8))>> }

\* status of the record of address a in table ks, "absent" when it has none
StatusIn(ks, a) == IF a \in DOMAIN ks THEN ks[a].status ELSE "absent"

\* C13: once the node the master addressed has restarted at its final address
\* and two polling passes have ended since, the record of that address exists,
\* and it is Online unless a poll of the node failed or was invalid meanwhile
\* (the finite form of "the master polls A and the record of A is eventually
\* Online").
C13_AddressedNodeOnline ==
    (assigned # 0 /\ i2c_address = assigned /\ passes_since = 2)
        => /\ assigned \in DOMAIN known_slaves
           /\ ~poll_failed => known_slaves[assigned].status = "online"

\* C14: no step removes an address from known_slaves.
C14_TableNeverShrinks == DOMAIN m_prev \subseteq DOMAIN known_slaves

\* C15: the timeout check that ends a polling pass sets Offline every record
\* that was Online with a last_seen older than the timeout (such a record had
\* no transport error at its last poll: that would have set it Offline).
C15_TimeoutSetsOffline ==
    m_op = "timeout_check"
        => \A a \in DOMAIN m_prev :
              (m_prev[a].status = "online" /\ m_prev[a].age > POLL_TIMEOUT_MS)
                  => StatusIn(known_slaves, a) = "offline"

C15_Witness ==
    /\ m_op = "timeout_check"
    /\ \E a \in DOMAIN m_prev :
          /\ m_prev[a].status = "online" /\ m_prev[a].age > POLL_TIMEOUT_MS
          /\ StatusIn(known_slaves, a) = "offline"

\* the bytes pass the framing validation of parse_slave_response: the filler,
\* or at least three bytes with a right checksum and a right length byte
FramingValid(data) ==
    \/ data = FILLER
    \/ /\ Len(data) >= 3
       /\ data[Len(data)] = calculate_checksum(SubSeq(data, 1, Len(data) - 1))
       /\ data[2] = Len(data) - 3

\* C16: a record that is Online after a step and was not before it was set so
\* by a poll of its own address whose response passed the framing validation.
C16_OnlineOnlyByValidPoll ==
    \A a \in DOMAIN known_slaves :
        (known_slaves[a].status = "online" /\ StatusIn(m_prev, a) # "online")
            => /\ m_op \in {"poll_valid", "poll_empty", "poll_event"}
               /\ m_addr = a
               /\ FramingValid(m_response)

C16_Witness ==
    /\ m_op = "poll_valid" /\ FramingValid(m_response)
    /\ StatusIn(m_prev, m_addr) = "unknown"
    /\ StatusIn(known_slaves, m_addr) = "online"

\* the status edges of the state machine, and no change
StatusEdges ==
    {<<"unknown", "online">>, <<"online", "offline">>, <<"offline", "online">>}
        \cup {<<st, st>> : st \in {"unknown", "online", "offline"}}

\* C17: a step changes the status of a record only along Unknown to Online,
\* Online to Offline and Offline to Online; in particular a failed poll leaves
\* an Unknown record Unknown.
C17_OnlyDefinedEdges ==
    \A a \in DOMAIN known_slaves \cap DOMAIN m_prev :
        <<m_prev[a].status, known_slaves[a].status>> \in StatusEdges

\* C18 as stated: a poll answered with the filler leaves the status of the
\* record as it was.
C18_FillerKeepsStatus ==
    (m_op \in {"poll_valid", "poll_empty", "poll_event"} /\ m_response = FILLER)
        => known_slaves[m_addr].status = m_prev[m_addr].status

\* C18, amended: a poll answered with the filler refreshes last_seen (the age
\* after the sleep that ends the iteration is that of the sleep) and leaves
\* the record Online, whatever its status was.
C18_FillerMarksOnline ==
    (m_op \in {"poll_valid", "poll_empty", "poll_event", "poll_invalid"}
     /\ m_response = FILLER)
        => /\ known_slaves[m_addr].status = "online"
           /\ known_slaves[m_addr].age \in MasterNaps

C18_Witness ==
    /\ m_op = "poll_empty" /\ m_response = FILLER
    /\ m_prev[m_addr].status = "offline"
    /\ known_slaves[m_addr].status = "online"

C20_UnknownUidNoAction ==
    (m_op \in {"disc_no_config", "disc_no_identity", "disc_already_online", "disc_set"}
     /\ m_parsed # None /\ TypeOf(m_parsed) = S_identity
     /\ \A i \in 1..Len(CONFIG.SLAVES) : <<K_uid, JStr(CONFIG.SLAVES[i].uid)>> \notin m_parsed.m)
        => /\ m_sent = <<>>
           /\ known_slaves = m_prev
           /\ disc_pc = "sleep"

C20_Witness ==
    /\ m_op = "disc_no_config"
    /\ <<K_uid, JStr(UNIQUE_ID)>> \in m_parsed.m
    /\ CONFIG.SLAVES = ConfigWithoutNode
    /\ known_slaves = m_prev /\ m_sent = <<>>

\* the frame of AddressAck{status OK, a}
AckFrame(a) ==
    <<ACK_SET_ADDRESS, 2, STATUS_OK, a,
      calculate_checksum(<<ACK_SET_ADDRESS, 2, STATUS_OK, a>>)>>

C22_AckOnlyAfterPersist ==
    (node_op = "set_address" /\ tx_queue # <<>>
     /\ tx_queue[Len(tx_queue)] = AckFrame(last_cmd[2]))
        => addr_file = File(<<last_cmd[2]>>)

\* C23: a master whose config.json is missing or corrupt does not halt: it
\* goes on to its discovery and polling loops with an empty configuration.
C23_MasterSurvivesNoConfig ==
    config_file.state \in {"missing", "corrupt"} => poll_pc # "halted"

\* the steps in which an i2c call of the master raised OSError
TransportErrors ==
    {"poll_oserror", "poll_feedback_oserror", "disc_oserror", "disc_set_oserror"}

\* C24: after a step in which a poll, a discovery probe or read, a SET_ADDRESS
\* or a feedback write raised OSError, both loops are still running: after
\* an error of polling, polling is in its sleep with the failed address behind
\* it; after an error of discovery, discovery is in the sleep before its next
\* period.
C24_TransportErrorsNotFatal ==
    m_op \in TransportErrors
        => /\ poll_pc \in {"top", "for"}
           /\ disc_pc \in {"sleep", "sent", "set"}
           /\ m_op \in {"poll_oserror", "poll_feedback_oserror"}
                 => (poll_yielded /\ m_addr \notin poll_todo)
           /\ m_op \in {"disc_oserror", "disc_set_oserror"} => disc_pc = "sleep"

C24_Witness ==
    /\ m_op = "poll_feedback_oserror"
    /\ poll_pc = "for" /\ poll_yielded /\ disc_pc = "sleep"

\* C25: discovery does not add or remove a record while a polling pass is
\* suspended part-way through the table.
C25_NoMutationDuringPass ==
    (m_op \in {"disc_set_address", "disc_set_oserror"}
     /\ DOMAIN known_slaves # DOMAIN m_prev)
        => poll_pc # "for"

\* C26: an edge or an idle timeout on one reader leaves every other reader as
\* it was: accumulated bits, bit count, last pulse time, idle timer.
C26_ReadersIndependent ==
    [][dec_op' \in {"bounce", "accept", "accept_capped",
                    "finalize_empty", "finalize_emit", "finalize_discard"}
          => \A q \in DOMAIN _readers \ {dec_r'} : _readers'[q] = _readers[q]]_vars

\* C27: a step of an interrupt handler of the node (i2c_irq_handler, here its
\* TX-done branch) removes nothing from the outbound queue and writes nothing
\* to the transport.
C27_IrqHandlersOnlyRecord ==
    [][node_op' \in {"tx_frame", "tx_filler"}
          => (tx_queue' = tx_queue /\ wire' = wire /\ sent' = sent)]_vars

\* C28: the binary decoder gives None for an input shorter than three bytes
\* other than the filler and for an input whose length byte differs from the
\* number of payload bytes after the two header bytes; the filler decodes to
\* the "empty" response.
C28_TruncatedOrWrongLength ==
    codec_op \in {"bin_parsed", "bin_parsed_altered"}
        => /\ bin_frame = FILLER => bin_parsed = Dict({<<K_type, JStr(S_empty)>>})
           /\ (Len(bin_frame) < 3 /\ bin_frame # FILLER) => bin_parsed = None
           /\ (Len(bin_frame) >= 3 /\ bin_frame[2] # Len(bin_frame) - 3)
                 => bin_parsed = None

C28_Witness ==
    /\ codec_op = "bin_parsed"
    /\ bin_frame = <<EVENT_HEARTBEAT, 2, 0, calculate_checksum(<<EVENT_HEARTBEAT, 2, 0>>)>>
    /\ bin_parsed = None

\* the field differs from the computed checksum in one digit, whose value is
\* another one
OneDigitChanged(field, cks) ==
    \/ field[1] = cks[1] /\ HexDigitValue(field[2]) # HexDigitValue(cks[2])
    \/ field[2] = cks[2] /\ HexDigitValue(field[1]) # HexDigitValue(cks[1])

\* C29: parse_message gives None for a line that lost its leading '<', its
\* closing '>' or its '|' separator, and for a line in which one hex digit of
\* the checksum was changed to another value.
C29_MalformedTextRejected ==
    /\ codec_op = "txt_parsed_damaged" => txt_parsed = None
    /\ (codec_op = "txt_parsed_altered" /\ OneDigitChanged(txt_alt, txt_cks))
          => txt_parsed = None

C29_Witness ==
    /\ codec_op = "txt_parsed_damaged"
    /\ txt_payload = TextPayload6
    /\ Len(txt_line) = Len(create_message(TextPayload6)) - 1
    /\ txt_line[1] = 60
    /\ txt_line[Len(txt_line) - 3] = 62
    /\ txt_parsed = None

\* C30: an accepted edge below the ceiling shifts the code one place up, puts
\* its bit in the lowest place and adds one to the bit count, so that the
\* first bit of a train is the most significant and the count is the number
\* of accepted edges; an accepted edge at the ceiling changes neither; the
\* finalized code and bit length are those accumulated.
C30_BitsInArrivalOrder ==
    [][ /\ dec_op' = "accept"
            => /\ _readers'[dec_r'].bits = _readers[dec_r'].bits + 1
               /\ _readers'[dec_r'].bits <= MAX_BITS
               /\ Len(_readers'[dec_r'].data) = _readers'[dec_r'].bits
               /\ BitAt(_readers'[dec_r'].data, 0) = dec_bit'
               /\ \A k \in 0..(MAX_BITS - 1) :
                     BitAt(_readers'[dec_r'].data, k + 1) = BitAt(_readers[dec_r'].data, k)
        /\ dec_op' = "accept_capped"
            => /\ _readers[dec_r'].bits = MAX_BITS
               /\ _readers'[dec_r'].bits = MAX_BITS
               /\ _readers'[dec_r'].data = _readers[dec_r'].data
        /\ dec_op' = "finalize_emit"
            => sched' = Append(sched, <<dec_r', _readers[dec_r'].data, _readers[dec_r'].bits>>)
      ]_vars

C30_Witness ==
    /\ dec_op = "finalize_emit" /\ sched # <<>>
    /\ sched[Len(sched)][3] = MAX_BITS
    /\ Len(sched[Len(sched)][2]) = MAX_BITS
    /\ BitAt(sched[Len(sched)][2], 0) = dec_bit

\* the last decoder step was an edge on a data line
EdgeOps == {"accept", "accept_capped", "bounce"}

\* C31: an accepted edge arms the reader's one-shot timer with 50 ms, the
\* finalizer of a reader runs only when 50 ms went by since its last accepted
\* edge and disarms the timer (once per train), and when edges stop arriving
\* every reader is finalized and stays empty.
C31_IdleTimerFinalizes ==
    /\ [][ /\ dec_op' \in {"accept", "accept_capped"}
               => /\ _readers'[dec_r'].armed
                  /\ _readers'[dec_r'].left_us = TIMEOUT_MS * 1000
           /\ dec_op' \in {"finalize_emit", "finalize_discard", "finalize_empty"}
               => /\ _readers[dec_r'].armed /\ _readers[dec_r'].left_us = 0
                  /\ ~_readers'[dec_r'].armed
         ]_vars
    /\ (<>[](dec_op \notin EdgeOps))
          => <>[](\A r \in DOMAIN _readers : _readers[r].bits = 0 /\ ~_readers[r].armed)

\* the bytes are a well-formed CardRead or Rex frame
EventFrame(data) ==
    /\ FramingValid(data) /\ data # FILLER
    /\ \/ data[1] = EVENT_CARD_READ /\ data[2] = 6
       \/ data[1] = EVENT_REX /\ data[2] = 1

\* C32: a poll that returned a CardRead or Rex frame is followed by a grant
\* to the address polled with the frame's reader id, a poll that returned
\* anything else by no command; every feedback command written is such a
\* grant.
C32_FeedbackOnCardOrRex ==
    /\ m_op \in {"poll_valid", "poll_empty", "poll_event", "poll_invalid"}
          => poll_fb = IF EventFrame(m_response) THEN <<m_addr, m_response[3]>> ELSE <<>>
    /\ m_op \in {"poll_feedback", "poll_feedback_oserror"}
          => /\ EventFrame(m_response)
             /\ m_sent = << <<m_addr, <<CMD_FEEDBACK_GRANT, m_response[3]>> >> >>
    /\ \A k \in 1..Len(m_sent) :
          m_sent[k][2][1] \in {CMD_FEEDBACK_GRANT, CMD_FEEDBACK_DENY}
              => m_op \in {"poll_feedback", "poll_feedback_oserror"}

\* the last command named a reader the node has no door for
UnknownReaderCmd ==
    /\ node_op = "feedback" /\ last_cmd[2] \notin DOORS

\* C33: a feedback command for a reader id the node has no door for, and a
\* command whose first byte is no known command, leave the queue, the stored
\* address and the outputs as they were, and so does the task created for the
\* unknown reader when it runs.
C33_UnknownReaderOrCommand ==
    [][ /\ (node_op' = "unknown" \/ UnknownReaderCmd')
            => /\ tx_queue' = tx_queue /\ accepted' = accepted
               /\ addr_file' = addr_file /\ i2c_address' = i2c_address
               /\ reset_pending' = reset_pending
               /\ feedback_pins' = feedback_pins
        /\ (node_op' = "feedback_task"
            /\ \A k \in 1..Len(fb_tasks) : fb_pc'[k] # fb_pc[k] => fb_tasks[k][1] \notin DOORS)
            => /\ tx_queue' = tx_queue /\ accepted' = accepted
               /\ addr_file' = addr_file /\ i2c_address' = i2c_address
               /\ reset_pending' = reset_pending
               /\ feedback_pins' = feedback_pins
      ]_vars

C33_Witness ==
    /\ node_op = "feedback_task"
    /\ fb_tasks = << <<9, CMD_FEEDBACK_DENY>> >> /\ fb_pc = <<"done">>
    /\ feedback_pins = PinsOff

\* the frames are IdentifyResponse and AddressAck frames only
OnlyDiscoveryFrames(q) ==
    \A k \in 1..Len(q) : q[k][1] \in {RESP_IDENTIFY, ACK_SET_ADDRESS}

\* C34: while the node's address is the reserved 0x08, every frame enqueued
\* since it started, and every frame in the queue, is an IdentifyResponse or
\* an AddressAck: no CardRead, Rex, DoorContact or Heartbeat.
C34_UnconfiguredNodeIsSilent ==
    i2c_address = UNCONFIGURED_I2C_ADDRESS
        => OnlyDiscoveryFrames(accepted) /\ OnlyDiscoveryFrames(tx_queue)

C34_Witness ==
    /\ i2c_address = UNCONFIGURED_I2C_ADDRESS
    /\ node_op = "card_skip"
    /\ Len(accepted) = 1
    /\ accepted[1][1] = ACK_SET_ADDRESS
    /\ last_input_states = NoInputStates

\* C35: no two nodes hold the same assigned address: when both nodes are on
\* the bus with an address other than the reserved one, their addresses differ.
C35_NoSharedAddress ==
    (i2c_address # UNCONFIGURED_I2C_ADDRESS
     /\ other_node.i2c_address \notin {0, UNCONFIGURED_I2C_ADDRESS})
        => i2c_address # other_node.i2c_address

====
